---- MODULE Spec2Model ----
(***************************************************************************)
(* A model of @vscode/chat-extension-utils:                                *)
(*   - FilesContext / FileContextTracker (components/file-context.tsx),    *)
(*     the budget-aware text window;                                       *)
(*   - FileTreeFragment.fileTree, Node and FileTree.parseText              *)
(*     (components/file-tree.tsx), the budget-aware tree builder;          *)
(*   - sendChatParticipantRequest (chatParticipantHandler.ts) with         *)
(*     ToolCall.render (components/tool-call.tsx), the tool-calling loop.  *)
(* Strings are sequences of one-character strings, so that splitting,      *)
(* trimming, joining and token counting are computed, not assumed.         *)
(***************************************************************************)
EXTENDS Integers, Sequences, FiniteSets, TLC

VARIABLES
    \* ---- text window (FilesContext.getExpandedFiles) ----
    fileInput,            \* props.files: the IFilesToInclude records
    files,                \* the FileContextTracker of each input
    tokenBudget,          \* sizing.tokenBudget
    tokenCount,           \* let tokenCount
    fileIdx,              \* position of `for (const file of files)`
    anyHadLinesToExpand,  \* let anyHadLinesToExpand
    pass                  \* "created" | "loop" | "returned"

VARIABLES
    \* ---- tree builder (FileTreeFragment.fileTree) ----
    props,       \* IFileTreeFragmentProps: root, focusOn, ignore, indent
    sizing,      \* sizing.tokenBudget of the build
    listing,     \* what readDirectory returns for each directory, in its order
    nodes,       \* every Node object created, by uri path
    children,    \* Node.children of every directory Node created
    queue,       \* const queue
    qi,          \* the index i into queue (1-based)
    remaining,   \* let remaining
    priority,    \* let priority
    cancelled,   \* token.isCancellationRequested
    build,       \* "created" | "loop" | "done" | "rejected"
    previous,    \* the result of the build before this one, if any
    atCancel     \* how many Nodes the tree held when cancellation was requested (-1: never)

VARIABLES
    \* ---- tool-calling loop (sendChatParticipantRequest) ----
    version,                 \* which version of the handler runs
    pc,                      \* "render" | "request" | "stream" | "rerender" | "done" | "failed"
    toolReferences,          \* const toolReferences = [...request.toolReferences]
    toolMode,                \* requestOptions.toolMode
    accumulatedToolResults,  \* const accumulatedToolResults, by call id
    toolCallRounds,          \* const toolCallRounds
    toolCalls,               \* const toolCalls of the response being read
    responseStr,             \* let responseStr: the text parts of the response
    out,                     \* what stream.enqueue has put on the returned stream
    closed,                  \* how many times controller.close() was called
    errored,                 \* the stream was errored by a rejected start()
    invoked,                 \* how many times vscode.lm.invokeTool ran, by call id
    requests,                \* how many times model.sendRequest ran
    responses,               \* the tool calls of every response read to its end
    messages,                \* let messages: the tool messages of the prompt rendered last
    result,                  \* the promise of the vscode.ChatResult
    options,                 \* options.responseStreamOptions and options.extensionMode
    sink,                    \* the calls made on options.responseStreamOptions.stream
    sent,                    \* the requestOptions of every model.sendRequest, in order
    renders                  \* result.references of every renderToolUserPrompt, in order

VARIABLES
    \* ---- one prompt element (ToolCall, History) rendered by itself ----
    element,     \* the element: its kind and its props
    piece        \* the PromptPiece its render() returned, once it has

windowVars == <<fileInput, files, tokenBudget, tokenCount, fileIdx,
                anyHadLinesToExpand, pass>>
treeVars == <<props, sizing, listing, nodes, children, queue, qi, remaining,
              priority, cancelled, build, previous, atCancel>>

loopVars == <<version, pc, toolReferences, toolMode, accumulatedToolResults, toolCallRounds,
              toolCalls, responseStr, out, closed, errored, invoked, requests, responses,
              messages, result, options, sink, sent, renders>>

elementVars == <<element, piece>>

vars == <<windowVars, treeVars, loopVars, elementVars>>

(***************************************************************************)
(* Bounds of the model.                                                    *)
(***************************************************************************)
MaxLines == 5          \* longest document, in lines
MaxFiles == 2          \* most documents in one assembly pass
MaxPassLines == 2      \* longest document of a pass over several documents
MaxBudget == 12        \* largest finite token budget tried
MaxTreeBudget == 12    \* largest finite token budget of a tree build
MaxSpacesPerTab == 2   \* widest run of spaces a tab is replaced by
MaxToolCalls == 3      \* most tool-call parts the model sends in one run
MaxTexts == 2          \* most text parts the model sends in one run
MaxHistory == 4        \* longest chat history, in turns
MaxN == 3              \* largest props.n of a History element
MaxTreeLines == 3      \* most lines of a text given to parseText
MaxTreeIndent == 2     \* deepest indentation of such a line, in tabs
CharsPerToken == 4     \* the token counter merges up to this many characters
UnlimitedBudget == 10000000

(***************************************************************************)
(* Strings.                                                                *)
(***************************************************************************)
Repeat(c, n) == [i \in 1..n |-> c]

RECURSIVE Concat(_)
Concat(ss) == IF ss = <<>> THEN <<>> ELSE Head(ss) \o Concat(Tail(ss))

\* Array.prototype.join
RECURSIVE Join(_, _)
Join(ss, sep) ==
    IF ss = <<>> THEN <<>>
    ELSE IF Len(ss) = 1 THEN ss[1]
    ELSE ss[1] \o sep \o Join(Tail(ss), sep)

Digits == <<"0", "1", "2", "3", "4", "5", "6", "7", "8", "9">>

(***************************************************************************)
(* The token counter (sizing.countTokens).  It is the caller's; the model  *)
(* uses one that is monotonic and subadditive and that merges characters   *)
(* across a concatenation: ceil(length / CharsPerToken).                   *)
(***************************************************************************)
CountTokens(s) == (Len(s) + CharsPerToken - 1) \div CharsPerToken

(***************************************************************************)
(* Documents: line i (0-based) of a numbered document reads "<i>" followed *)
(* by padding, as the test document's `${i}: lorem ipsum`; a sparse        *)
(* document alternates empty lines and "ab".                               *)
(***************************************************************************)
NumberedLine(i) == <<Digits[(i % 10) + 1]>> \o Repeat("x", 2 * (i % 3))
NumberedDoc(n) == [k \in 1..n |-> NumberedLine(k - 1)]
SparseDoc(n) == [k \in 1..n |-> IF k % 2 = 1 THEN <<>> ELSE <<"a", "b">>]

LineCount(doc) == Len(doc)
\* StringTextDocument.lineAt: `this.lines[line] || ''`
LineAt(doc, line) == IF line + 1 \in DOMAIN doc THEN doc[line + 1] ELSE <<>>

NoRange == <<>>
RangesOf(doc) == {<<s, e>> : s \in 0..(LineCount(doc) - 1), e \in 0..(LineCount(doc) - 1)}
InsideRanges(doc) == {r \in RangesOf(doc) : r[1] <= r[2]}

Label == <<"f">>
\* TLA+ strings cannot hold a backquote: "'" stands for it in the fences.
Tick == "'"
Fence == <<"\n", Tick, Tick, Tick, "\n">>
Suffix == Fence
Prefix(label) == <<"#", " ">> \o label \o Fence

(***************************************************************************)
(* FileContextTracker                                                      *)
(***************************************************************************)
\* A slip of the constructor: maxLine is set to the range's end line, not one past it.
NewTrackerEndExclusive(f) ==
    LET clamp == (f.expand = FALSE) /\ (f.range # NoRange) IN
    [ document   |-> f.value,
      prefix     |-> Prefix(f.label),
      lines      |-> <<>>,
      minLine    |-> IF clamp THEN f.range[1] ELSE 0,
      maxLine    |-> IF clamp THEN f.range[2] ELSE LineCount(f.value),
      aboveLine  |-> IF f.range # NoRange
                       THEN f.range[1] + ((f.range[2] - f.range[1]) \div 2) ELSE 0,
      belowLine  |-> IF f.range # NoRange
                       THEN f.range[1] + ((f.range[2] - f.range[1]) \div 2) ELSE 0,
      nextLineIs |-> "above" ]

\* constructor(document, { range, label, expand, value })
NewTracker(f) ==
    LET clamp == (f.expand = FALSE) /\ (f.range # NoRange) IN
    [ document   |-> f.value,
      prefix     |-> Prefix(f.label),
      lines      |-> <<>>,
      minLine    |-> IF clamp THEN f.range[1] ELSE 0,
      maxLine    |-> IF clamp THEN f.range[2] + 1 ELSE LineCount(f.value),
      aboveLine  |-> IF f.range # NoRange
                       THEN f.range[1] + ((f.range[2] - f.range[1]) \div 2) ELSE 0,
      belowLine  |-> IF f.range # NoRange
                       THEN f.range[1] + ((f.range[2] - f.range[1]) \div 2) ELSE 0,
      nextLineIs |-> "above" ]

\* the document put in place of one that cannot be read
FailedToRead == << <<"F", "a", "i", "l", "e", "d", " ", "t", "o", " ", "r", "e", "a", "d", " ",
                     "f", "i", "l", "e">> >>

\* A slip of create(): the failure of readFile is not caught, and the tracker
\* is built as if the contents had been read.
CreateReadsAnyway(f) == NewTracker(f)

\* static async create(f): f.kind is "string" for a literal value, "uri" for a
\* location that workspace.fs.readFile reads, "unreadable" for one it throws on
Create(f) ==
    IF f.kind = "unreadable"
        THEN NewTracker([f EXCEPT !.value = FailedToRead])
        ELSE NewTracker(f)

BaseTokenCount(t) == CountTokens(t.prefix) + CountTokens(Suffix)

Undefined == <<"undefined">>

\* nextLine(): the text of the next line plus '\n', or undefined
NextLine(t) ==
    CASE t.nextLineIs = "above" -> LineAt(t.document, t.aboveLine) \o <<"\n">>
      [] t.nextLineIs = "below" -> LineAt(t.document, t.belowLine) \o <<"\n">>
      [] OTHER -> Undefined

\* A slip of expand(): the room below is tested against maxLine - 2.
ExpandStopsOneShort(t) ==
    IF t.nextLineIs = "above" THEN
        LET t1 == [t EXCEPT !.lines = <<LineAt(t.document, t.aboveLine)>> \o @] IN
        IF t.belowLine < t.maxLine - 2
            THEN [t1 EXCEPT !.belowLine = @ + 1, !.nextLineIs = "below"]
        ELSE IF t.aboveLine > t.minLine
            THEN [t1 EXCEPT !.aboveLine = @ - 1]
        ELSE [t1 EXCEPT !.nextLineIs = "none"]
    ELSE IF t.nextLineIs = "below" THEN
        LET t1 == [t EXCEPT !.lines = Append(@, LineAt(t.document, t.belowLine))] IN
        IF t.aboveLine > t.minLine
            THEN [t1 EXCEPT !.aboveLine = @ - 1, !.nextLineIs = "above"]
        ELSE IF t.belowLine < t.maxLine - 2
            THEN [t1 EXCEPT !.belowLine = @ + 1]
        ELSE [t1 EXCEPT !.nextLineIs = "none"]
    ELSE t

\* A slip of expand(): the window grows upwards for as long as there is room
\* above, and only then downwards.
ExpandOneSideFirst(t) ==
    IF t.nextLineIs = "above" THEN
        LET t1 == [t EXCEPT !.lines = <<LineAt(t.document, t.aboveLine)>> \o @] IN
        IF t.aboveLine > t.minLine
            THEN [t1 EXCEPT !.aboveLine = @ - 1]
        ELSE IF t.belowLine < t.maxLine - 1
            THEN [t1 EXCEPT !.belowLine = @ + 1, !.nextLineIs = "below"]
        ELSE [t1 EXCEPT !.nextLineIs = "none"]
    ELSE IF t.nextLineIs = "below" THEN
        LET t1 == [t EXCEPT !.lines = Append(@, LineAt(t.document, t.belowLine))] IN
        IF t.belowLine < t.maxLine - 1
            THEN [t1 EXCEPT !.belowLine = @ + 1]
        ELSE [t1 EXCEPT !.nextLineIs = "none"]
    ELSE t

\* expand()
Expand(t) ==
    IF t.nextLineIs = "above" THEN
        LET t1 == [t EXCEPT !.lines = <<LineAt(t.document, t.aboveLine)>> \o @] IN
        IF t.belowLine < t.maxLine - 1
            THEN [t1 EXCEPT !.belowLine = @ + 1, !.nextLineIs = "below"]
        ELSE IF t.aboveLine > t.minLine
            THEN [t1 EXCEPT !.aboveLine = @ - 1]
        ELSE [t1 EXCEPT !.nextLineIs = "none"]
    ELSE IF t.nextLineIs = "below" THEN
        LET t1 == [t EXCEPT !.lines = Append(@, LineAt(t.document, t.belowLine))] IN
        IF t.aboveLine > t.minLine
            THEN [t1 EXCEPT !.aboveLine = @ - 1, !.nextLineIs = "above"]
        ELSE IF t.belowLine < t.maxLine - 1
            THEN [t1 EXCEPT !.belowLine = @ + 1]
        ELSE [t1 EXCEPT !.nextLineIs = "none"]
    ELSE t

\* toString()
toString(t) == t.prefix \o Join(t.lines, <<"\n">>) \o Suffix

\* FilesContext.render: one chunk per file, each holding f.toString()
RenderedFiles == Concat([k \in 1..Len(files) |-> toString(files[k])])

(***************************************************************************)
(* FilesContext.getExpandedFiles                                           *)
(***************************************************************************)
Documents == {NumberedDoc(n) : n \in 1..MaxLines} \cup {SparseDoc(n) : n \in 1..MaxLines}
\* a document whose first line costs more than the first line of the others
WideDoc == <<NumberedLine(2), NumberedLine(0)>>
PassDocuments == {NumberedDoc(n) : n \in 1..MaxPassLines} \cup {WideDoc}

\* one document, any focus range inside it, expansion on or off
SingleInputs ==
    { <<[kind |-> "string", value |-> d, range |-> r, label |-> Label, expand |-> e]>> :
        d \in Documents, r \in {NoRange} \cup UNION {InsideRanges(dd) : dd \in Documents},
        e \in BOOLEAN }

\* one location, read or not, with and without a focus range
LocationInputs ==
    { <<[kind |-> k, value |-> NumberedDoc(MaxLines), range |-> r, label |-> Label,
         expand |-> TRUE]>> :
        k \in {"uri", "unreadable"}, r \in {NoRange, <<0, 0>>, <<1, 1>>} }

FileChoices ==
    { [kind |-> "string", value |-> d, range |-> NoRange, label |-> Label, expand |-> TRUE] :
        d \in PassDocuments }
    \cup { [kind |-> "string", value |-> NumberedDoc(MaxPassLines), range |-> <<0, 0>>,
             label |-> Label, expand |-> FALSE] }
    \cup { [kind |-> "unreadable", value |-> NumberedDoc(MaxPassLines), range |-> NoRange,
             label |-> Label, expand |-> TRUE] }

RECURSIVE SeqsOf(_, _)
SeqsOf(S, n) ==
    IF n = 0 THEN {<<>>}
    ELSE {Append(s, x) : s \in SeqsOf(S, n - 1), x \in S}

SeveralInputs == UNION {SeqsOf(FileChoices, n) : n \in 2..MaxFiles}

WellFormedInput(fs) ==
    \A k \in 1..Len(fs) : fs[k].range = NoRange \/ fs[k].range \in InsideRanges(fs[k].value)

Budgets == (0..MaxBudget) \cup {UnlimitedBudget}

WindowStart ==
    /\ fileInput \in {fs \in SingleInputs \cup LocationInputs \cup SeveralInputs :
                        WellFormedInput(fs)}
    /\ tokenBudget \in Budgets
    /\ files = <<>>
    /\ tokenCount = 0
    /\ fileIdx = 0
    /\ anyHadLinesToExpand = FALSE
    /\ pass = "created"

\* A slip of the budget test: a line that fills the budget exactly is refused.
OverflowsAtBudget(count, nextLine, budget) == count + CountTokens(nextLine) >= budget

\* line 213: tokenCount + nextTokenCount > sizing.tokenBudget
Overflows(count, nextLine, budget) == count + CountTokens(nextLine) > budget

RECURSIVE SumBase(_)
SumBase(ts) == IF ts = <<>> THEN 0 ELSE BaseTokenCount(Head(ts)) + SumBase(Tail(ts))

\* lines 193-201: create the trackers and count the label and the fences
StartPass ==
    /\ pass = "created"
    /\ files' = [k \in 1..Len(fileInput) |-> Create(fileInput[k])]
    /\ tokenCount' = SumBase(files')
    /\ fileIdx' = 1
    /\ anyHadLinesToExpand' = FALSE
    /\ pass' = "loop"
    /\ UNCHANGED <<fileInput, tokenBudget, treeVars, loopVars, elementVars>>

\* lines 206-209: nextLine === undefined, continue
SkipFile ==
    /\ pass = "loop"
    /\ fileIdx <= Len(files)
    /\ NextLine(files[fileIdx]) = Undefined
    /\ fileIdx' = fileIdx + 1
    /\ UNCHANGED <<fileInput, files, tokenBudget, tokenCount, anyHadLinesToExpand, pass, treeVars, loopVars, elementVars>>

\* lines 211-215: the next line would exceed the budget, return files
ReturnOverBudget ==
    /\ pass = "loop"
    /\ fileIdx <= Len(files)
    /\ NextLine(files[fileIdx]) # Undefined
    /\ Overflows(tokenCount, NextLine(files[fileIdx]), tokenBudget)
    /\ anyHadLinesToExpand' = TRUE
    /\ pass' = "returned"
    /\ UNCHANGED <<fileInput, files, tokenBudget, tokenCount, fileIdx, treeVars, loopVars, elementVars>>

\* lines 211-218: file.expand(); tokenCount += nextTokenCount
ExpandFile ==
    /\ pass = "loop"
    /\ fileIdx <= Len(files)
    /\ NextLine(files[fileIdx]) # Undefined
    /\ ~Overflows(tokenCount, NextLine(files[fileIdx]), tokenBudget)
    /\ anyHadLinesToExpand' = TRUE
    /\ files' = [files EXCEPT ![fileIdx] = Expand(@)]
    /\ tokenCount' = tokenCount + CountTokens(NextLine(files[fileIdx]))
    /\ fileIdx' = fileIdx + 1
    /\ UNCHANGED <<fileInput, tokenBudget, pass, treeVars, loopVars, elementVars>>

\* lines 221-223: end of one round over the files
EndRound ==
    /\ pass = "loop"
    /\ fileIdx = Len(files) + 1
    /\ IF anyHadLinesToExpand
         THEN /\ fileIdx' = 1
              /\ anyHadLinesToExpand' = FALSE
              /\ pass' = pass
         ELSE /\ pass' = "returned"
              /\ UNCHANGED <<fileIdx, anyHadLinesToExpand>>
    /\ UNCHANGED <<fileInput, files, tokenBudget, tokenCount, treeVars, loopVars, elementVars>>

WindowIdle ==
    /\ fileInput = <<>>
    /\ files = <<>>
    /\ tokenBudget = 0
    /\ tokenCount = 0
    /\ fileIdx = 0
    /\ anyHadLinesToExpand = FALSE
    /\ pass = "idle"

WindowNext == StartPass \/ SkipFile \/ ReturnOverBudget \/ ExpandFile \/ EndRound

(***************************************************************************)
(* More strings: what the tree builder and the parser use.                 *)
(***************************************************************************)
Range(f) == {f[x] : x \in DOMAIN f}

\* String.prototype.slice(from)
Slice(s, from) == SubSeq(s, from + 1, Len(s))

\* String.prototype.startsWith
StartsWith(s, p) == Len(p) <= Len(s) /\ SubSeq(s, 1, Len(p)) = p

Uppercase == <<"A", "B", "C", "D", "E", "F", "G", "H", "I", "J", "K", "L", "M",
               "N", "O", "P", "Q", "R", "S", "T", "U", "V", "W", "X", "Y", "Z">>
Lowercase == <<"a", "b", "c", "d", "e", "f", "g", "h", "i", "j", "k", "l", "m",
               "n", "o", "p", "q", "r", "s", "t", "u", "v", "w", "x", "y", "z">>

ToLowerChar(c) ==
    IF \E i \in DOMAIN Uppercase : Uppercase[i] = c
        THEN Lowercase[CHOOSE i \in DOMAIN Uppercase : Uppercase[i] = c]
        ELSE c

\* String.prototype.toLowerCase
ToLowerCase(s) == [i \in DOMAIN s |-> ToLowerChar(s[i])]

\* String.prototype.indexOf / lastIndexOf, 1-based, 0 when absent
IndexOf(s, c) ==
    IF \E i \in DOMAIN s : s[i] = c
        THEN CHOOSE i \in DOMAIN s : s[i] = c /\ \A j \in 1..(i - 1) : s[j] # c
        ELSE 0
LastIndexOf(s, c) ==
    IF \E i \in DOMAIN s : s[i] = c
        THEN CHOOSE i \in DOMAIN s : s[i] = c /\ \A j \in (i + 1)..Len(s) : s[j] # c
        ELSE 0

\* String.prototype.split(c)
RECURSIVE Split(_, _)
Split(s, c) ==
    IF IndexOf(s, c) = 0 THEN <<s>>
    ELSE <<SubSeq(s, 1, IndexOf(s, c) - 1)>> \o Split(SubSeq(s, IndexOf(s, c) + 1, Len(s)), c)

\* const basename = (uri) => ...
Basename(path) ==
    IF LastIndexOf(path, "/") = 0 THEN path ELSE SubSeq(path, LastIndexOf(path, "/") + 1, Len(path))

\* vscode.Uri.joinPath(uri, segment): an empty segment leaves the path as it is
JoinPath(path, segment) == IF segment = <<>> THEN path ELSE path \o <<"/">> \o segment

(***************************************************************************)
(* String.prototype.localeCompare on paths: punctuation sorts before       *)
(* digits, digits before letters, letters without regard to case, and a    *)
(* lowercase letter before its uppercase only to break a tie.              *)
(***************************************************************************)
Collation == <<"\t", " ", ".", "/">> \o Digits \o Lowercase
CharRank(c) ==
    IF \E i \in DOMAIN Collation : Collation[i] = c
        THEN CHOOSE i \in DOMAIN Collation : Collation[i] = c
        ELSE Len(Collation) + 1

RECURSIVE LexLess(_, _)
LexLess(a, b) ==
    IF b = <<>> THEN FALSE
    ELSE IF a = <<>> THEN TRUE
    ELSE IF CharRank(Head(a)) # CharRank(Head(b)) THEN CharRank(Head(a)) < CharRank(Head(b))
    ELSE LexLess(Tail(a), Tail(b))

RECURSIVE CaseLess(_, _)
CaseLess(a, b) ==
    IF a = <<>> \/ b = <<>> THEN FALSE
    ELSE IF Head(a) # Head(b) THEN ToLowerChar(Head(a)) = Head(a)
    ELSE CaseLess(Tail(a), Tail(b))

\* a.localeCompare(b) < 0
LocaleLess(a, b) ==
    \/ LexLess(ToLowerCase(a), ToLowerCase(b))
    \/ (ToLowerCase(a) = ToLowerCase(b) /\ CaseLess(a, b))

(***************************************************************************)
(* The workspace the directory lister reads (the test suite's tree, cut    *)
(* down): directories src, src/baz, src/baz/c and t; a symbolic link in c. *)
(***************************************************************************)
Root == <<"/", "w">>
Src == JoinPath(Root, <<"s", "r", "c">>)
Baz == JoinPath(Src, <<"b", "a", "z">>)
Corge == JoinPath(Baz, <<"c">>)
Test == JoinPath(Root, <<"t", "e", "s", "t">>)
Outside == <<"/", "v">>
\* a directory next to the root whose path begins with the root's path
Beside == <<"/", "w", "x">>

Entry(name, type) == [name |-> name, type |-> type]

DirectoryEntries(dir) ==
    CASE dir = Root -> {Entry(<<"s", "r", "c">>, "Directory"), Entry(<<"t", "e", "s", "t">>, "Directory")}
      [] dir = Src -> {Entry(<<"b", "a", "z">>, "Directory"), Entry(<<"a", ".", "j", "s">>, "File")}
      [] dir = Baz -> {Entry(<<"c">>, "Directory"), Entry(<<"q", "u">>, "File")}
      [] dir = Corge -> {Entry(<<"g", ".", "j">>, "File"), Entry(<<"l", "n">>, "SymbolicLink")}
      [] dir = Test -> {Entry(<<"a", "1">>, "File"), Entry(<<"B">>, "File")}
      [] OTHER -> {}

Directories == {Root, Src, Baz, Corge, Test}

\* every order in which readDirectory may return the entries of a directory
Orders(S) == {s \in SeqsOf(S, Cardinality(S)) : Range(s) = S}

\* readDirectory(uri): the order a directory was first returned in is the order it
\* is returned in again; a directory not read before may come in any order
ReadDirectory(uri) ==
    IF uri \in DOMAIN listing THEN {listing[uri]} ELSE Orders(DirectoryEntries(uri))

ROOT_PRIORITY == 2147483647

(***************************************************************************)
(* Node                                                                    *)
(***************************************************************************)
NoParent == 0

\* A slip of the priorities: every Node below the root gets the same one.
NodeOfEqualPriority(uri, parent, indent, kind, prio) ==
    [uri |-> uri, parent |-> parent, indent |-> indent, isDir |-> (kind = "Directory"),
     priority |-> IF parent = NoParent THEN prio ELSE ROOT_PRIORITY - 1]

\* new Node(uri, parent, indent, kind, priority); a Node is known by its index in nodes
Node(uri, parent, indent, kind, prio) ==
    [uri |-> uri, parent |-> parent, indent |-> indent, isDir |-> (kind = "Directory"),
     priority |-> prio]

\* get text()
NodeText(n) ==
    Repeat("\t", n.indent) \o Basename(n.uri) \o (IF n.isDir THEN <<"/">> ELSE <<>>) \o <<"\n">>

\* the Nodes that are in some Node's children list, and their uris
Attached == UNION {Range(children[n]) : n \in DOMAIN children}
AttachedUris == {nodes[n].uri : n \in Attached}

(***************************************************************************)
(* FileTreeFragment.fileTree                                               *)
(***************************************************************************)
\* lines 180-182
FocusWithinRoot == StartsWith(ToLowerCase(props.focusOn), ToLowerCase(props.root))

\* lines 199-200: the path segments from the root down to focusOn
FocusSegments ==
    IF Len(props.focusOn) > Len(props.root)
        THEN Split(Slice(props.focusOn, Len(props.root) + 1), "/")
        ELSE <<>>

\* A slip of the focus chain: a segment is only added while the budget pays
\* for it, as the listed children are.
RECURSIVE DescendWithinBudget(_, _)
DescendWithinBudget(st, segments) ==
    IF segments = <<>> THEN st
    ELSE
        LET first == st.firstQueueItem
            next == Node(JoinPath(st.nodes[first].uri, Head(segments)), first,
                         st.nodes[first].indent + 1, "Directory", st.priority)
            id == Len(st.nodes) + 1
            left == st.remaining - CountTokens(NodeText(next))
        IN IF left < 0 THEN st
           ELSE DescendWithinBudget(
                   [ nodes |-> Append(st.nodes, next),
                     children |-> Append([st.children EXCEPT ![first] = Append(@, id)], <<>>),
                     remaining |-> left,
                     priority |-> st.priority - 1,
                     firstQueueItem |-> id ],
                   Tail(segments))

\* lines 200-212: one Node per segment, charged at once
RECURSIVE Descend(_, _)
Descend(st, segments) ==
    IF segments = <<>> THEN st
    ELSE
        LET first == st.firstQueueItem
            next == Node(JoinPath(st.nodes[first].uri, Head(segments)), first,
                         st.nodes[first].indent + 1, "Directory", st.priority)
            id == Len(st.nodes) + 1
        IN Descend([ nodes |-> Append(st.nodes, next),
                     children |-> Append([st.children EXCEPT ![first] = Append(@, id)], <<>>),
                     remaining |-> st.remaining - CountTokens(NodeText(next)),
                     priority |-> st.priority - 1,
                     firstQueueItem |-> id ],
                   Tail(segments))

\* A slip of step 2: a child that does not fit is passed over, and a directory
\* among them is queued all the same, instead of ending the build.
RECURSIVE AddChildrenSkipping(_, _, _, _, _)
AddChildrenSkipping(st, node, allNodes, childIds, k) ==
    IF k > Len(childIds) THEN st
    ELSE
        LET child == childIds[k]
            left == st.remaining - CountTokens(NodeText(allNodes[child]))
            queued == IF allNodes[child].isDir
                        THEN Append(st.queue, [node |-> child, ascend |-> FALSE])
                        ELSE st.queue
        IN IF left < 0
             THEN AddChildrenSkipping([st EXCEPT !.queue = queued],
                                      node, allNodes, childIds, k + 1)
             ELSE AddChildrenSkipping(
                     [st EXCEPT !.remaining = left,
                                !.children = [@ EXCEPT ![node] = Append(@, child)],
                                !.queue = queued],
                     node, allNodes, childIds, k + 1)

\* line 243: the test of the token in the loop over the children, made anew for
\* each child; nothing is awaited in the loop, so it is all of them or none
ChildrenLoopIgnoresToken(cancelNow) == TRUE
ChildrenLoopRuns(cancelNow) == ~cancelNow

\* lines 243-254: add each child so long as there is budget for it
RECURSIVE AddChildren(_, _, _, _, _)
AddChildren(st, node, allNodes, childIds, k) ==
    IF k > Len(childIds) THEN st
    ELSE
        LET child == childIds[k]
            left == st.remaining - CountTokens(NodeText(allNodes[child]))
        IN IF left < 0
             THEN [st EXCEPT !.remaining = left, !.broke = TRUE]
             ELSE AddChildren(
                     [st EXCEPT !.remaining = left,
                                !.children = [@ EXCEPT ![node] = Append(@, child)],
                                !.queue = IF allNodes[child].isDir
                                            THEN Append(@, [node |-> child, ascend |-> FALSE])
                                            ELSE @],
                     node, allNodes, childIds, k + 1)

(***************************************************************************)
(* Node.toSubtree: the rendered tree                                       *)
(***************************************************************************)
\* Array.prototype.sort with (a, b) => a.uri.path.localeCompare(b.uri.path): stable
RECURSIVE InsertByPath(_, _)
InsertByPath(sorted, n) ==
    IF sorted = <<>> THEN <<n>>
    ELSE IF LocaleLess(nodes[n].uri, nodes[Head(sorted)].uri)
        THEN <<n>> \o sorted
        ELSE <<Head(sorted)>> \o InsertByPath(Tail(sorted), n)

RECURSIVE SortByPath(_)
SortByPath(ids) ==
    IF ids = <<>> THEN <<>>
    ELSE InsertByPath(SortByPath(SubSeq(ids, 1, Len(ids) - 1)), ids[Len(ids)])

\* A slip of toSubtree(): the children are yielded in the order they were added.
RECURSIVE ToSubtreeUnsorted(_)
ToSubtreeUnsorted(n) ==
    (IF nodes[n].priority < ROOT_PRIORITY THEN <<n>> ELSE <<>>)
    \o (IF nodes[n].isDir
          THEN Concat([k \in DOMAIN children[n] |-> ToSubtreeUnsorted(children[n][k])])
          ELSE <<>>)

\* *toSubtree(): the Nodes in the order their text chunks are yielded
RECURSIVE ToSubtree(_)
ToSubtree(n) ==
    (IF nodes[n].priority < ROOT_PRIORITY THEN <<n>> ELSE <<>>)
    \o (IF nodes[n].isDir
          THEN LET sorted == SortByPath(children[n])
               IN Concat([k \in DOMAIN sorted |-> ToSubtree(sorted[k])])
          ELSE <<>>)

RootNode == 1
Emitted == ToSubtree(RootNode)

(***************************************************************************)
(* Node.uris and FileTreeMetadata                                          *)
(***************************************************************************)
\* *uris(filesOnly): the uris in the order they are yielded
RECURSIVE Uris(_, _)
Uris(n, filesOnly) ==
    (IF filesOnly /\ ~nodes[n].isDir THEN <<nodes[n].uri>> ELSE <<>>)
    \o (IF nodes[n].isDir
          THEN Concat([k \in DOMAIN children[n] |-> Uris(children[n][k], filesOnly)])
          ELSE <<>>)

\* FileTreeMetadata.uris() and FileTreeMetadata.files()
MetadataUris == Uris(RootNode, FALSE)
MetadataFiles == Uris(RootNode, TRUE)

\* FileTreeFragment.render: the text of the chunks, in order
TextOf(emitted) == Concat([k \in DOMAIN emitted |-> NodeText(nodes[emitted[k]])])
RenderedTree == TextOf(Emitted)

(***************************************************************************)
(* FileTree.parseText.  A parsed node is known by its index in the         *)
(* sequence of nodes created; parent 0 is the result list itself.          *)
(***************************************************************************)
IsSpace(c) == c \in {" ", "\t", "\r", "\n"}

\* String.prototype.search(/\S/): 0-based index of the first non-space, -1 if none
SearchNonSpace(s) ==
    IF \E i \in DOMAIN s : ~IsSpace(s[i])
        THEN (CHOOSE i \in DOMAIN s : ~IsSpace(s[i]) /\ \A j \in 1..(i - 1) : IsSpace(s[j])) - 1
        ELSE -1

\* String.prototype.trim
RECURSIVE TrimEnd(_)
TrimEnd(s) == IF s # <<>> /\ IsSpace(s[Len(s)]) THEN TrimEnd(SubSeq(s, 1, Len(s) - 1)) ELSE s
Trim(s) == IF SearchNonSpace(s) = -1 THEN <<>> ELSE TrimEnd(Slice(s, SearchNonSpace(s)))

\* String.prototype.replaceAll(c, by)
ReplaceAll(s, c, by) == Concat([i \in DOMAIN s |-> IF s[i] = c THEN by ELSE <<s[i]>>])

EmptyParse == [parsed |-> <<>>, stack |-> <<0>>]

\* A slip of lines 117-121: an equally indented line does not pop its sibling.
RECURSIVE PopStackStrict(_, _, _)
PopStackStrict(stack, parsed, indent) ==
    IF Len(stack) > 1 /\ Len(indent) < Len(parsed[stack[Len(stack)]].indent)
        THEN PopStackStrict(SubSeq(stack, 1, Len(stack) - 1), parsed, indent)
        ELSE stack

\* lines 117-121: pop while the line is not indented deeper than the top of the stack
RECURSIVE PopStack(_, _, _)
PopStack(stack, parsed, indent) ==
    IF Len(stack) > 1 /\ Len(indent) <= Len(parsed[stack[Len(stack)]].indent)
        THEN PopStack(SubSeq(stack, 1, Len(stack) - 1), parsed, indent)
        ELSE stack

\* lines 106-133: one line of the text
ParseLine(st, line) ==
    IF Trim(line) = <<>> \/ SearchNonSpace(line) = -1 THEN st
    ELSE
        LET nameIndex == SearchNonSpace(line)
            indent == SubSeq(line, 1, nameIndex)
            stack == PopStack(st.stack, st.parsed, indent)
            parent == stack[Len(stack)]
            name == Trim(Slice(line, nameIndex))
            isDir == name[Len(name)] = "/"
            node == [name |-> IF isDir THEN SubSeq(name, 1, Len(name) - 1) ELSE name,
                     hasChildren |-> isDir, parent |-> parent, indent |-> indent]
            withParent == IF parent = 0 THEN st.parsed
                          ELSE [st.parsed EXCEPT ![parent].hasChildren = TRUE]
        IN [parsed |-> Append(withParent, node),
            stack |-> Append(stack, Len(st.parsed) + 1)]

RECURSIVE ParseLines(_, _)
ParseLines(st, lines) ==
    IF lines = <<>> THEN st ELSE ParseLines(ParseLine(st, Head(lines)), Tail(lines))

\* parseText(tree): name, whether children is defined, and parent of every node
ParseText(tree) ==
    LET parsed == ParseLines(EmptyParse, Split(tree, "\n")).parsed
    IN [k \in DOMAIN parsed |->
           [name |-> parsed[k].name, hasChildren |-> parsed[k].hasChildren,
            parent |-> parsed[k].parent]]

\* the rendered Nodes as parseText should give them back
PositionIn(seq, x) == IF \E k \in DOMAIN seq : seq[k] = x
                        THEN CHOOSE k \in DOMAIN seq : seq[k] = x ELSE 0
StructureOf(emitted) ==
    [k \in DOMAIN emitted |->
        [name |-> Basename(nodes[emitted[k]].uri),
         hasChildren |-> nodes[emitted[k]].isDir,
         parent |-> PositionIn(emitted, nodes[emitted[k]].parent)]]
RenderedStructure == StructureOf(Emitted)

FocusChoices == {Root, Src, Baz, Corge, Outside, Beside}
IgnoreChoices == {{}, {Corge}}
IndentChoices == {0, 1}
TreeBudgets == (0..MaxTreeBudget) \cup {UnlimitedBudget}
NoPrevious == [budget |-> -1, uris |-> {}]

TreeStart ==
    /\ props \in [root : {Root}, focusOn : FocusChoices, ignore : IgnoreChoices,
                  indent : IndentChoices]
    /\ sizing \in TreeBudgets
    /\ listing = <<>>
    /\ nodes = <<>>
    /\ children = <<>>
    /\ queue = <<>>
    /\ qi = 0
    /\ remaining = 0
    /\ priority = ROOT_PRIORITY
    /\ cancelled = FALSE
    /\ build = "created"
    /\ previous = NoPrevious
    /\ atCancel = -1

TreeIdle ==
    /\ props = [root |-> Root, focusOn |-> Root, ignore |-> {}, indent |-> 0]
    /\ sizing = 0
    /\ listing = <<>>
    /\ nodes = <<>>
    /\ children = <<>>
    /\ queue = <<>>
    /\ qi = 0
    /\ remaining = 0
    /\ priority = ROOT_PRIORITY
    /\ cancelled = FALSE
    /\ build = "idle"
    /\ previous = NoPrevious
    /\ atCancel = -1

\* lines 180-182: throw new Error('focusOn must be within the root URI')
RejectFocus ==
    /\ build = "created"
    /\ ~FocusWithinRoot
    /\ build' = "rejected"
    /\ UNCHANGED <<props, sizing, listing, nodes, children, queue, qi, remaining,
                   priority, cancelled, previous, atCancel, windowVars, loopVars, elementVars>>

\* lines 187-216: the root Node, the focus chain, the queue.  Cancellation may be
\* requested while the token count of the chain's cancelAt-th Node is awaited
\* (0: it is not); the chain's loop does not look at the token.
StartBuild ==
    /\ build = "created"
    /\ FocusWithinRoot
    /\ \E cancelAt \in 0..Len(FocusSegments) :
        LET rootNode == Node(props.root, NoParent, -1 + props.indent, "Directory", ROOT_PRIORITY)
            st == Descend([ nodes |-> <<rootNode>>, children |-> <<<<>>>>,
                            remaining |-> sizing, priority |-> ROOT_PRIORITY - 1,
                            firstQueueItem |-> 1 ],
                          FocusSegments)
        IN /\ nodes' = st.nodes
           /\ children' = st.children
           /\ remaining' = st.remaining
           /\ priority' = st.priority
           /\ queue' = <<[node |-> st.firstQueueItem, ascend |-> TRUE]>>
           /\ qi' = 1
           /\ cancelled' = (cancelAt > 0)
           /\ atCancel' = IF cancelAt > 0 THEN cancelAt ELSE -1
           /\ build' = IF cancelAt > 0 THEN "done" ELSE "loop"
    /\ UNCHANGED <<props, sizing, listing, previous, windowVars, loopVars, elementVars>>

\* A slip of step 1: a listed entry is taken even when the Node has a child
\* of that uri.
NeverAlreadyChild(node, uri) == FALSE

\* line 235: node.children!.some(c2 => c2.uri.toString() === c.uri.toString())
AlreadyChild(node, uri) == \E c2 \in Range(children[node]) : nodes[c2].uri = uri

\* A slip of step 3: the parent is queued ahead of the directories among the
\* children just added.
AscendBeforeChildren(before, after, parent) ==
    before \o <<[node |-> parent, ascend |-> TRUE]>> \o SubSeq(after, Len(before) + 1, Len(after))

\* lines 258-260: queue.push({ node: node.parent, ascend: true }), after the
\* children; `before` is the queue as it was when the iteration began
AscendAfterChildren(before, after, parent) == Append(after, [node |-> parent, ascend |-> TRUE])

\* lines 216-261: one iteration of the queue loop; cancellation may be requested
\* while readDirectory, ignore or countTokens is awaited
ProcessQueueItem ==
    /\ build = "loop"
    /\ \E cancelNow \in BOOLEAN, entries \in ReadDirectory(nodes[queue[qi].node].uri) :
        LET node == queue[qi].node
            ascend == queue[qi].ascend
            listed == [k \in DOMAIN entries |->
                          [uri |-> JoinPath(nodes[node].uri, entries[k].name),
                           type |-> entries[k].type]]
            ignored == {c.uri : c \in Range(listed)} \cap props.ignore
            kept == SelectSeq(listed, LAMBDA c :
                        /\ c.type \in {"Directory", "File"}
                        /\ c.uri \notin ignored
                        /\ ~AlreadyChild(node, c.uri))
            childNodes == [k \in DOMAIN kept |->
                              Node(kept[k].uri, node, nodes[node].indent + 1, kept[k].type,
                                   priority - (k - 1))]
            allNodes == nodes \o childNodes
            childIds == [k \in DOMAIN kept |-> Len(nodes) + k]
            st0 == [children |-> children \o [k \in DOMAIN kept |-> <<>>],
                    queue |-> queue, remaining |-> remaining, broke |-> FALSE]
            st1 == IF ChildrenLoopRuns(cancelNow)
                     THEN AddChildren(st0, node, allNodes, childIds, 1)
                     ELSE st0
            queue1 == IF ~st1.broke /\ ascend /\ nodes[node].parent # NoParent
                        THEN AscendAfterChildren(queue, st1.queue, nodes[node].parent)
                        ELSE st1.queue
        IN /\ listing' = (nodes[node].uri :> entries) @@ listing
           /\ nodes' = allNodes
           /\ children' = st1.children
           /\ remaining' = st1.remaining
           /\ priority' = priority - Len(kept)
           /\ queue' = queue1
           /\ cancelled' = cancelNow
           /\ atCancel' = IF cancelNow THEN Cardinality(Attached) ELSE -1
           /\ qi' = IF st1.broke THEN qi ELSE qi + 1
           /\ build' = IF st1.broke \/ cancelNow \/ qi + 1 > Len(queue1) THEN "done" ELSE "loop"
    /\ UNCHANGED <<props, sizing, previous, windowVars, loopVars, elementVars>>

\* the same tree is built again with a larger budget (as the test cases do,
\* budget after budget): the earlier result is kept for comparison
Rebuild ==
    /\ build = "done"
    /\ ~cancelled
    /\ previous = NoPrevious
    /\ \E b \in TreeBudgets :
        /\ b > sizing
        /\ sizing' = b
    /\ previous' = [budget |-> sizing, uris |-> AttachedUris]
    /\ nodes' = <<>>
    /\ children' = <<>>
    /\ queue' = <<>>
    /\ qi' = 0
    /\ remaining' = 0
    /\ priority' = ROOT_PRIORITY
    /\ build' = "created"
    /\ UNCHANGED <<props, listing, cancelled, atCancel, windowVars, loopVars, elementVars>>

TreeNext == RejectFocus \/ StartBuild \/ ProcessQueueItem

(***************************************************************************)
(* The tool-calling loop: sendChatParticipantRequest, runWithTools and     *)
(* ToolCall.render.  The repository holds two versions of the handler;     *)
(* `version` says which one runs.                                          *)
(***************************************************************************)
Closing == 1       \* start() ends in .finally(() => controller.close())
NotClosing == 2    \* start() returns the promise as it is
Versions == {Closing, NotClosing}

\* vscode.lm.tools, by name
RegisteredTools == {"s", "t"}

\* the LanguageModelToolCallParts the model may send; tool "u" is not registered
ToolCallParts == { [callId |-> "a", name |-> "t"],
                   [callId |-> "b", name |-> "t"],
                   [callId |-> "m", name |-> "u"] }
CallIds == {c.callId : c \in ToolCallParts}

\* request.toolReferences
ReferenceChoices == {<<>>, <<"s", "t">>}

\* options.responseStreamOptions with a stream, its two opt-ins, and whether
\* options.extensionMode is Development
Options(references, responseText, serveTrace) ==
    [references |-> references, responseText |-> responseText, serveTrace |-> serveTrace]
OptionChoices == { Options(FALSE, FALSE, FALSE), Options(TRUE, FALSE, FALSE),
                   Options(FALSE, TRUE, FALSE), Options(TRUE, TRUE, TRUE) }

\* result.references of the k-th rendering: one reference whose anchor is a
\* Uri and one whose anchor is a variable
Anchor(k) == [render |-> k, uri |-> TRUE]
Variable(k) == [render |-> k, uri |-> FALSE]
ReferencesOf(k) == <<Anchor(k), Variable(k)>>

\* the calls on the ChatResponseStream: stream.markdown(part.value),
\* stream.markdown(md) of the prompt trace, stream.reference(ref.anchor)
Markdown(value) == [call |-> "markdown", value |-> value]
TraceLink == [call |-> "markdown", value |-> 0]   \* no text of the model: those count from 1
Reference(anchor) == [call |-> "reference", value |-> anchor]

\* renderToolUserPrompt: if (serveTrace) ... if (stream) stream.markdown(md)
TraceCalls == IF options.serveTrace THEN <<TraceLink>> ELSE <<>>

\* the n-th LanguageModelTextPart of the run, and the result of the n-th
\* invocation for a call id
TextPart(n) == [text |-> n]
ToolResultOf(id, n) == [callId |-> id, n |-> n]

\* A slip of ToolCall.render: the tool is not looked up.
ToolFoundAlways(call) == TRUE

\* tool-call.tsx: const tool = vscode.lm.tools.find(t => t.name === this.props.call.name)
ToolFound(call) == call.name \in RegisteredTools

\* A slip of ToolCall.render: props.result is not looked at.
InvokesAlways(call, results) == TRUE

\* tool-call.tsx: this.props.result || (await vscode.lm.invokeTool(...))
Invokes(call, results) == call.callId \notin DOMAIN results

\* the ToolCall elements of the prompt: one for every tool call of every round
\* record, in order, each given toolCallResults[callId] as its result
PromptToolCalls(rounds) == Concat([r \in DOMAIN rounds |-> rounds[r].toolCalls])

\* how many of the calls ToolCall.render invokes, given the results at hand
InvocationCount(calls, results) ==
    Cardinality({k \in DOMAIN calls : ToolFound(calls[k]) /\ Invokes(calls[k], results)})

\* <ToolMessage toolCallId={...}>: the placeholder or the ToolResult
ToolNotFound == [callId |-> "", n |-> 0]
ToolMessage(id, content) == [toolCallId |-> id, content |-> content]

\* renderer.render(): every ToolCall.render in order; the failAt-th invocation
\* of this rendering throws (none when failAt = 0)
RECURSIVE RenderToolCalls(_, _, _, _)
RenderToolCalls(calls, results, st, failAt) ==
    IF calls = <<>> \/ st.failed THEN st
    ELSE
        LET call == Head(calls)
            id == call.callId
        IN IF ~ToolFound(call)
             THEN RenderToolCalls(Tail(calls), results,
                      [st EXCEPT !.messages = Append(@, ToolMessage(id, ToolNotFound))],
                      failAt)
           ELSE IF ~Invokes(call, results)
             THEN RenderToolCalls(Tail(calls), results,
                      [st EXCEPT !.metadata =
                           Append(@, [toolCallId |-> id, result |-> results[id]]),
                                 !.messages = Append(@, ToolMessage(id, results[id]))],
                      failAt)
           ELSE IF st.invocations + 1 = failAt
             THEN [st EXCEPT !.invoked[id] = @ + 1, !.invocations = @ + 1,
                             !.failed = TRUE]
           ELSE RenderToolCalls(Tail(calls), results,
                      [st EXCEPT !.invoked[id] = @ + 1, !.invocations = @ + 1,
                                 !.metadata = Append(@,
                                     [toolCallId |-> id,
                                      result |-> ToolResultOf(id, st.invoked[id] + 1)]),
                                 !.messages = Append(@,
                                     ToolMessage(id, ToolResultOf(id, st.invoked[id] + 1)))],
                      failAt)

\* A slip of the caching: the metadata is not stored.
CacheNothing(results, metadata) == results

\* toolResultMetadata.forEach(meta => accumulatedToolResults[meta.toolCallId] = meta.result)
RECURSIVE CacheToolResults(_, _)
CacheToolResults(results, metadata) ==
    IF metadata = <<>> THEN results
    ELSE CacheToolResults(
             [id \in DOMAIN results \cup {Head(metadata).toolCallId} |->
                 IF id = Head(metadata).toolCallId THEN Head(metadata).result
                 ELSE results[id]],
             Tail(metadata))

\* A slip of the loop's end: another round whatever the model sent.
NextAlwaysRenders(calls) == "rerender"

\* if (toolCalls.length) { ... return runWithTools(); }
NextAfterStream(calls) == IF Len(calls) > 0 THEN "rerender" ELSE "done"

\* the promise of the ChatResult: pending, fulfilled with the metadata of the
\* return statement, or rejected with what was thrown
Pending == [state |-> "pending", error |-> "none", toolCallResults |-> <<>>,
            toolCallRounds |-> <<>>]
Fulfilled(results, rounds) ==
    [state |-> "fulfilled", error |-> "none", toolCallResults |-> results,
     toolCallRounds |-> rounds]

\* A slip: what is thrown is swallowed and the promise is fulfilled, empty.
RejectedSwallowed(error) == Fulfilled(<<>>, <<>>)

\* an async function that throws rejects its promise with what was thrown
Rejected(error) ==
    [state |-> "rejected", error |-> error, toolCallResults |-> <<>>,
     toolCallRounds |-> <<>>]

\* the promise settles: .finally(() => controller.close()) in the closing
\* version; in the other a rejection errors the stream and nothing closes it.
\* failure is "none" or names what threw: "render", "model" or "tool".
Settled(failure) ==
    /\ closed' = IF version = Closing THEN closed + 1 ELSE closed
    /\ errored' = (version = NotClosing /\ failure # "none")
    /\ result' = IF failure = "none"
                   THEN Fulfilled(accumulatedToolResults, toolCallRounds')
                   ELSE Rejected(failure)

LoopStart ==
    /\ version \in Versions
    /\ pc = "render"
    /\ toolReferences \in ReferenceChoices
    /\ toolMode = "undefined"
    /\ accumulatedToolResults = <<>>
    /\ toolCallRounds = <<>>
    /\ toolCalls = <<>>
    /\ responseStr = <<>>
    /\ out = <<>>
    /\ closed = 0
    /\ errored = FALSE
    /\ invoked = [id \in CallIds |-> 0]
    /\ requests = 0
    /\ responses = <<>>
    /\ messages = <<>>
    /\ result = Pending
    /\ options \in OptionChoices
    /\ sink = <<>>
    /\ sent = <<>>
    /\ renders = <<>>

LoopIdle ==
    /\ version = Closing
    /\ pc = "idle"
    /\ toolReferences = <<>>
    /\ toolMode = "undefined"
    /\ accumulatedToolResults = <<>>
    /\ toolCallRounds = <<>>
    /\ toolCalls = <<>>
    /\ responseStr = <<>>
    /\ out = <<>>
    /\ closed = 0
    /\ errored = FALSE
    /\ invoked = [id \in CallIds |-> 0]
    /\ requests = 0
    /\ responses = <<>>
    /\ messages = <<>>
    /\ result = Pending
    /\ options = Options(FALSE, FALSE, FALSE)
    /\ sink = <<>>
    /\ sent = <<>>
    /\ renders = <<>>

\* result.references.forEach(ref => ...): an anchor is sent on with
\* stream.reference when options.responseStreamOptions.references is set
ForwardReferences(refs) ==
    IF options.references
        THEN LET anchors == SelectSeq(refs, LAMBDA r : r.uri)
             IN [k \in DOMAIN anchors |-> Reference(anchors[k])]
        ELSE <<>>

\* A slip: the text of the model never reaches the ChatResponseStream.
ForwardTextNever(value) == <<>>

\* if (options.responseStreamOptions?.responseText) stream.markdown(part.value)
ForwardText(value) == IF options.responseText THEN <<Markdown(value)>> ELSE <<>>

\* const tools = options.tools: the caller offers the registered tools
OptionTools == RegisteredTools

\* A slip of runWithTools: the requested tool is not singled out.
RequestOptionsUnfiltered(references) ==
    IF references # <<>>
        THEN [toolMode |-> "Required", tools |-> OptionTools]
        ELSE [toolMode |-> "undefined", tools |-> OptionTools]

\* runWithTools: a requested tool forces the tools of that name out of
\* vscode.lm.tools, otherwise options.tools is offered and toolMode is unset
RequestOptions(references) ==
    IF references # <<>>
        THEN [toolMode |-> "Required", tools |-> {Head(references)} \cap RegisteredTools]
        ELSE [toolMode |-> "undefined", tools |-> OptionTools]

\* A slip: the tool call read last is put in front of the others.
BufferInFront(calls, part) == <<part>> \o calls

\* toolCalls.push(part)
Buffer(calls, part) == Append(calls, part)

\* the tool-call and text parts the model has sent so far in the run
ToolCallsSent == Len(toolCalls) + Len(PromptToolCalls(toolCallRounds))
TextsSent == Len(out)

\* Render the initial prompt: toolCallRounds: [], so no ToolCall is rendered
RenderInitialPrompt ==
    /\ pc = "render"
    /\ pc' = "request"
    /\ renders' = <<ReferencesOf(1)>>
    /\ sink' = sink \o TraceCalls \o ForwardReferences(ReferencesOf(1))
    /\ UNCHANGED <<version, toolReferences, toolMode, accumulatedToolResults, toolCallRounds,
                   toolCalls, responseStr, out, closed, errored, invoked, requests,
                   responses, messages, result, options, sent, windowVars, treeVars,
                   elementVars>>

\* runWithTools, to the await of model.sendRequest: toolReferences.shift()
SendRequest ==
    /\ pc = "request"
    /\ toolMode' = RequestOptions(toolReferences).toolMode
    /\ toolReferences' = IF toolReferences # <<>> THEN Tail(toolReferences) ELSE <<>>
    /\ sent' = Append(sent, RequestOptions(toolReferences))
    /\ requests' = requests + 1
    /\ toolCalls' = <<>>
    /\ responseStr' = <<>>
    /\ pc' = "stream"
    /\ UNCHANGED <<version, accumulatedToolResults, toolCallRounds, out, closed, errored,
                   invoked, responses, messages, result, options, sink, renders,
                   windowVars, treeVars, elementVars>>

\* for await (const part of response.stream): a LanguageModelTextPart
StreamTextPart ==
    /\ pc = "stream"
    /\ TextsSent < MaxTexts
    /\ out' = Append(out, TextPart(TextsSent + 1))
    /\ responseStr' = Append(responseStr, TextsSent + 1)
    /\ sink' = sink \o ForwardText(TextsSent + 1)
    /\ UNCHANGED <<version, pc, toolReferences, toolMode, accumulatedToolResults,
                   toolCallRounds, toolCalls, closed, errored, invoked, requests,
                   responses, messages, result, options, sent, renders, windowVars,
                   treeVars, elementVars>>

\* for await (const part of response.stream): a LanguageModelToolCallPart; a
\* callId identifies one tool call of a response, and may come again in a
\* later response
StreamToolCallPart ==
    /\ pc = "stream"
    /\ ToolCallsSent < MaxToolCalls
    /\ \E part \in ToolCallParts :
          /\ \A k \in DOMAIN toolCalls : toolCalls[k].callId # part.callId
          /\ toolCalls' = Buffer(toolCalls, part)
    /\ UNCHANGED <<version, pc, toolReferences, toolMode, accumulatedToolResults,
                   toolCallRounds, responseStr, out, closed, errored, invoked, requests,
                   responses, messages, result, options, sink, sent, renders,
                   windowVars, treeVars, elementVars>>

\* the response stream ends: the round record, and either the return or the
\* await of the next rendering
StreamEnd ==
    /\ pc = "stream"
    /\ responses' = Append(responses, toolCalls)
    /\ toolCallRounds' =
          IF version = Closing \/ Len(toolCalls) > 0
              THEN Append(toolCallRounds, [response |-> responseStr, toolCalls |-> toolCalls])
              ELSE toolCallRounds
    /\ pc' = NextAfterStream(toolCalls)
    /\ IF pc' = "done" THEN Settled("none") ELSE UNCHANGED <<closed, errored, result>>
    /\ UNCHANGED <<version, toolReferences, toolMode, accumulatedToolResults, toolCalls,
                   responseStr, out, invoked, requests, messages, options, sink, sent,
                   renders, windowVars, treeVars, elementVars>>

\* renderToolUserPrompt with the round records, the caching of the results, and
\* the call of runWithTools; or an invocation throws and the promise rejects
RenderToolCallRounds ==
    /\ pc = "rerender"
    /\ LET calls == PromptToolCalls(toolCallRounds)
       IN \E failAt \in 0..InvocationCount(calls, accumulatedToolResults) :
            LET st == RenderToolCalls(calls, accumulatedToolResults,
                          [invoked |-> invoked, invocations |-> 0, metadata |-> <<>>,
                           messages |-> <<>>, failed |-> FALSE],
                          failAt)
            IN /\ invoked' = st.invoked
               /\ IF st.failed
                    THEN /\ pc' = "failed"
                         /\ Settled("tool")
                         /\ UNCHANGED <<accumulatedToolResults, messages, sink, renders>>
                    ELSE /\ pc' = "request"
                         /\ accumulatedToolResults' =
                               CacheToolResults(accumulatedToolResults, st.metadata)
                         /\ messages' = st.messages
                         /\ renders' = Append(renders, ReferencesOf(Len(renders) + 1))
                         /\ sink' = sink \o TraceCalls
                         /\ UNCHANGED <<closed, errored, result>>
    /\ UNCHANGED <<version, toolReferences, toolMode, toolCallRounds, toolCalls, responseStr,
                   out, requests, responses, options, sent, windowVars, treeVars,
                   elementVars>>

\* the initial rendering, model.sendRequest or the response stream throws
Fail ==
    /\ pc \in {"render", "stream"}
    /\ pc' = "failed"
    /\ Settled(IF pc = "render" THEN "render" ELSE "model")
    /\ UNCHANGED <<version, toolReferences, toolMode, accumulatedToolResults, toolCallRounds,
                   toolCalls, responseStr, out, invoked, requests, responses, messages,
                   options, sink, sent, renders, windowVars, treeVars, elementVars>>

LoopNext ==
    \/ RenderInitialPrompt
    \/ SendRequest
    \/ StreamTextPart
    \/ StreamToolCallPart
    \/ StreamEnd
    \/ RenderToolCallRounds
    \/ Fail

(***************************************************************************)
(* One prompt element rendered by itself: ToolCall (tool-call.tsx) and     *)
(* History (history.tsx), with whatever props a prompt may give them.      *)
(***************************************************************************)
NoPiece == [kind |-> "none"]

\* props.result of a ToolCall element: any result, of this call or another
GivenResults == {ToolResultOf(id, n) : id \in CallIds, n \in 1..2}

\* <ToolCall call={...} result={...} />: props.result is optional
ToolCallElements ==
    [kind : {"ToolCall"}, call : ToolCallParts]
    \cup [kind : {"ToolCall"}, call : ToolCallParts, result : GivenResults]

\* the results at hand for the call of one element
ResultsGiven(e) == IF "result" \in DOMAIN e THEN (e.call.callId :> e.result) ELSE <<>>

\* ChatContext['history']: ChatRequestTurns and ChatResponseTurns, told apart by
\* their place in the conversation
Turn(type, at) == [type |-> type, at |-> at]
Histories ==
    UNION {{[k \in 1..len |-> Turn(types[k], k)] :
               types \in [1..len -> {"ChatRequestTurn", "ChatResponseTurn"}]} :
           len \in 0..MaxHistory}

\* <History history={...} n={...} renderTurn={...} older={0} newer={80} passPriority />:
\* props.n and props.renderTurn are optional
HistoryElements ==
    [kind : {"History"}, history : Histories, older : {0}, newer : {80}]
    \cup [kind : {"History"}, history : Histories, older : {0}, newer : {80}, n : 0..MaxN]
    \cup [kind : {"History"}, history : Histories, older : {0}, newer : {80},
          renderTurn : {"custom"}]
    \cup [kind : {"History"}, history : Histories, older : {0}, newer : {80}, n : 0..MaxN,
          renderTurn : {"custom"}]

\* Array.prototype.slice(start, end): a negative index counts from the end
RelativeIndex(a, i) ==
    IF i < 0 THEN (IF Len(a) + i < 0 THEN 0 ELSE Len(a) + i)
    ELSE (IF i > Len(a) THEN Len(a) ELSE i)
SliceArray(a, start, end) == SubSeq(a, RelativeIndex(a, start) + 1, RelativeIndex(a, end))

\* defaultRenderTurn, and a renderTurn of the caller's
DefaultRenderTurn(turn) ==
    [by |-> "defaultRenderTurn",
     message |-> IF turn.type = "ChatRequestTurn" THEN "UserMessage" ELSE "AssistantMessage",
     turn |-> turn]
CustomRenderTurn(turn) == [by |-> "renderTurn", message |-> "custom", turn |-> turn]

\* HistoryMessages.render: this.props.history.map(this.props.renderTurn || defaultRenderTurn)
\* in a PrioritizedList that is not descending
HistoryMessages(p) ==
    [priority |-> p.priority,
     children |-> [k \in DOMAIN p.history |->
                      [priority |-> k - 1,
                       piece |-> IF "renderTurn" \in DOMAIN p
                                   THEN CustomRenderTurn(p.history[k])
                                   ELSE DefaultRenderTurn(p.history[k])]]]

\* History.render
HistoryRender(p) ==
    LET n == IF "n" \in DOMAIN p THEN p.n ELSE 2
    IN << HistoryMessages([history |-> SliceArray(p.history, 0, -n), priority |-> p.older]),
          HistoryMessages([history |-> SliceArray(p.history, -n, Len(p.history)),
                           priority |-> p.newer]) >>

\* the lines a model may answer with: a name at some indentation, with or
\* without a trailing '/', or a blank line
TreeLines ==
    {Repeat("\t", i) \o <<"a">> \o slash : i \in 0..MaxTreeIndent, slash \in {<<>>, <<"/">>}}
    \cup {<<" ">>}

\* FileTree.parseText(tree) called on a text that is not the builder's
TreeTexts ==
    [kind : {"parseText"},
     tree : {Join(ls, <<"\n">>) : ls \in UNION {SeqsOf(TreeLines, n) : n \in 0..MaxTreeLines}}]

ElementStart ==
    /\ element \in ToolCallElements \cup HistoryElements \cup TreeTexts
    /\ piece = NoPiece

ElementIdle ==
    /\ element = [kind |-> "none"]
    /\ piece = NoPiece

\* ToolCall.render for one element; the invocation may throw
RenderToolCall ==
    /\ element.kind = "ToolCall"
    /\ piece = NoPiece
    /\ \E failAt \in 0..InvocationCount(<<element.call>>, ResultsGiven(element)) :
        LET st == RenderToolCalls(<<element.call>>, ResultsGiven(element),
                      [invoked |-> [id \in CallIds |-> 0], invocations |-> 0,
                       metadata |-> <<>>, messages |-> <<>>, failed |-> FALSE],
                      failAt)
        IN piece' = [kind |-> "ToolCall", invocations |-> st.invocations,
                     metadata |-> st.metadata, messages |-> st.messages, failed |-> st.failed]
    /\ UNCHANGED <<element, windowVars, treeVars, loopVars>>

\* History.render and the HistoryMessages.render of its two children
RenderHistory ==
    /\ element.kind = "History"
    /\ piece = NoPiece
    /\ piece' = [kind |-> "History", lists |-> HistoryRender(element)]
    /\ UNCHANGED <<element, windowVars, treeVars, loopVars>>

\* FileTree.parseText(tree)
ParseTree ==
    /\ element.kind = "parseText"
    /\ piece = NoPiece
    /\ piece' = [kind |-> "parsed", result |-> ParseText(element.tree)]
    /\ UNCHANGED <<element, windowVars, treeVars, loopVars>>

ElementNext == RenderToolCall \/ RenderHistory \/ ParseTree

ElementInit == ElementStart /\ WindowIdle /\ TreeIdle /\ LoopIdle

\* one element rendered once
SpecElements == ElementInit /\ [][ElementNext]_vars

TreeInit == TreeStart /\ WindowIdle /\ LoopIdle /\ ElementIdle

\* one build of one tree
SpecTree == TreeInit /\ [][TreeNext]_vars

\* A step of the build: the guard is passed or throws, or the queue loop runs
\* one iteration (i++, break L or the loop's end).  Every step of TreeNext is
\* such a step and changes build or qi, and one is possible exactly while the
\* build has not ended.
Advance ==
    /\ build \in {"created", "loop"}
    /\ build' \in {"loop", "done", "rejected"}
    /\ qi' \in {1, qi, qi + 1}

\* the build is one async function whose awaits all settle: it keeps running
SpecTreeFair == TreeInit /\ [][TreeNext]_vars /\ WF_<<build, qi>>(Advance)

\* a build, and the same tree built once more with a larger budget
RebuildNext == RejectFocus \/ StartBuild \/ ProcessQueueItem \/ Rebuild

\* the builds compared are those with a focus path
RebuildInit == TreeInit /\ props.indent = 0 /\ props.focusOn # props.root

SpecRebuild == RebuildInit /\ [][RebuildNext]_vars

WindowInit == WindowStart /\ TreeIdle /\ LoopIdle /\ ElementIdle

SpecWindow == WindowInit /\ [][WindowNext]_vars

LoopInit == LoopStart /\ WindowIdle /\ TreeIdle /\ ElementIdle

SpecLoop == LoopInit /\ [][LoopNext]_vars

(***************************************************************************)
(* Claims about the text window.                                           *)
(***************************************************************************)
FocusLines(f) == SubSeq(f.value, f.range[1] + 1, f.range[2] + 1)
Clamped(k) == fileInput[k].expand = FALSE /\ fileInput[k].range # NoRange
RangeInside(k) ==
    fileInput[k].range = NoRange \/ fileInput[k].range \in InsideRanges(files[k].document)

\* C1: for every budget B >= 0 and every set of documents, the text the pass
\* finally produces (label lines, fences and included lines of all documents),
\* re-counted with the token counter, costs at most B tokens.
C1_OutputWithinBudget ==
    pass = "returned" => CountTokens(RenderedFiles) <= tokenBudget

\* C7: with an unlimited budget and expansion enabled, the finished window of a
\* document holds every line of the document exactly once, in original order,
\* for every focus range inside the document and without one.
C7_UnlimitedIncludesEveryLine ==
    (pass = "returned" /\ tokenBudget = UnlimitedBudget) =>
        \A k \in 1..Len(files) :
            (fileInput[k].expand /\ RangeInside(k)) => files[k].lines = files[k].document

C7_Witness ==
    /\ pass = "returned"
    /\ tokenBudget = UnlimitedBudget
    /\ \E k \in 1..Len(files) :
          /\ fileInput[k].expand
          /\ fileInput[k].range # NoRange
          /\ fileInput[k].range[1] > 0
          /\ files[k].document = NumberedDoc(MaxLines)
          /\ files[k].lines = files[k].document

\* C8 as stated: with expansion disabled and a focus range given, the output
\* holds exactly the lines of the focus range, for every budget.
C8_ExactlyFocusRangeAtEveryBudget ==
    pass = "returned" =>
        \A k \in 1..Len(files) :
            Clamped(k) => files[k].lines = FocusLines(fileInput[k])

\* C8 amended: with expansion disabled and a focus range given, the output
\* holds, for every budget, only lines of the focus range (a contiguous run of
\* them, none outside it), and it holds exactly the lines of the focus range
\* once the window has no line left to add, as at the end of a pass with an
\* unlimited budget.
C8_OnlyFocusRange ==
    \A k \in 1..Len(files) :
        Clamped(k) =>
            /\ \E a \in fileInput[k].range[1]..(fileInput[k].range[2] + 1) :
                  \E b \in (a - 1)..fileInput[k].range[2] :
                      files[k].lines = SubSeq(files[k].document, a + 1, b + 1)
            /\ (files[k].nextLineIs = "none" \/
                (pass = "returned" /\ tokenBudget = UnlimitedBudget))
                  => files[k].lines = FocusLines(fileInput[k])

C8_Witness ==
    /\ pass = "returned"
    /\ tokenBudget < UnlimitedBudget
    /\ \E k \in 1..Len(files) :
          /\ Clamped(k)
          /\ fileInput[k].range[1] > 0
          /\ fileInput[k].range[2] > fileInput[k].range[1]
          /\ fileInput[k].range[2] < LineCount(files[k].document) - 1
          /\ files[k].lines = FocusLines(fileInput[k])

\* C14: when a referenced location cannot be read, its window is built over a
\* placeholder content string instead of the document, and the assembly pass
\* goes on for that document and for all other documents without failing.
C14_UnreadableGivesPlaceholder ==
    pass \in {"loop", "returned"} =>
        /\ Len(files) = Len(fileInput)
        /\ \A k \in 1..Len(files) :
              /\ files[k].document =
                    IF fileInput[k].kind = "unreadable" THEN FailedToRead
                    ELSE fileInput[k].value
              /\ (pass = "returned" /\ tokenBudget = UnlimitedBudget /\ fileInput[k].expand)
                    => \A i \in DOMAIN files[k].document :
                          \E j \in DOMAIN files[k].lines :
                              files[k].lines[j] = files[k].document[i]

C14_Witness ==
    /\ pass = "returned"
    /\ Len(files) = 2
    /\ fileInput[1].kind = "unreadable"
    /\ files[1].lines = FailedToRead
    /\ fileInput[2].kind = "string"
    /\ files[2].lines = NumberedDoc(MaxPassLines)

\* the next line of document k is there and does not fit the budget
NextLineOverflows(k) ==
    /\ NextLine(files[k]) # Undefined
    /\ tokenCount + CountTokens(NextLine(files[k])) > tokenBudget

\* C26, as stated: the pass ends only when a full round added no line to any
\* document, or when the next line of every document that still has lines
\* would overflow the budget; a document whose next line does not fit does
\* not stop a later one, whose next line fits, from being expanded.
C26_EndsWhenNothingFits ==
    pass = "returned" =>
        \A k \in 1..Len(files) : NextLine(files[k]) = Undefined \/ NextLineOverflows(k)

\* C26, amended: the pass ends only when a full round found no document with
\* a line left, or as soon as the next line of the document whose turn it is
\* would overflow the budget; the documents after it are not looked at then,
\* whether their next line fits or not.
C26_EndsAtFirstOverflow ==
    pass = "returned" =>
        \/ \A k \in 1..Len(files) : NextLine(files[k]) = Undefined
        \/ (fileIdx \in 1..Len(files) /\ NextLineOverflows(fileIdx))

C26_Witness ==
    /\ pass = "returned"
    /\ Len(files) = 2
    /\ fileIdx = 1
    /\ NextLineOverflows(1)
    /\ NextLine(files[2]) # Undefined
    /\ ~NextLineOverflows(2)

\* both cursors of a window are at the bounds of its expansion
AtBounds(t) == t.aboveLine = t.minLine /\ t.belowLine = t.maxLine - 1

\* C27, as stated: in every state of a window, nextLineIs = 'none' holds if
\* and only if both cursors are at their bounds, aboveLine at minLine and
\* belowLine at the last line of the expansion bounds.
C27_DoneIffAtBounds ==
    \A k \in 1..Len(files) :
        RangeInside(k) => ((files[k].nextLineIs = "none") <=> AtBounds(files[k]))

\* C27, amended: for a focus range inside the document, nextLineIs = 'none'
\* implies that both cursors are at their bounds and that every line within
\* the bounds is included; the cursors are at their bounds without
\* nextLineIs = 'none' exactly while the one line a cursor stands on is still
\* to be added.
C27_DoneImpliesAtBounds ==
    \A k \in 1..Len(files) :
        RangeInside(k) =>
            LET t == files[k]
            IN /\ t.nextLineIs = "none" =>
                     /\ AtBounds(t)
                     /\ t.lines = SubSeq(t.document, t.minLine + 1, t.maxLine)
               /\ (AtBounds(t) /\ t.nextLineIs # "none") =>
                     Len(t.lines) = t.maxLine - t.minLine - 1

C27_Witness ==
    \E k \in 1..Len(files) :
        /\ Clamped(k)
        /\ files[k].nextLineIs = "none"
        /\ files[k].minLine > 0
        /\ files[k].maxLine < LineCount(files[k].document)
        /\ Len(files[k].lines) = 3
        /\ AtBounds(files[k])

\* the midpoint line of the focus range, line 0 without a range
Midpoint(f) ==
    IF f.range = NoRange THEN 0 ELSE f.range[1] + ((f.range[2] - f.range[1]) \div 2)

\* the first and the last line the window holds, by its cursors
FirstIncluded(t) == IF t.nextLineIs = "above" THEN t.aboveLine + 1 ELSE t.aboveLine
LastIncluded(t) == IF t.nextLineIs = "below" THEN t.belowLine - 1 ELSE t.belowLine

\* C24: with expansion enabled the window starts at the midpoint line of the
\* focus range (line 0 without a range) and grows alternately on both sides:
\* whenever neither end of the document has been reached, the number of
\* included lines below the midpoint equals the number above it or exceeds
\* it by exactly one.
C24_GrowsAlternately ==
    \A k \in 1..Len(files) :
        (fileInput[k].expand /\ RangeInside(k) /\ files[k].lines # <<>>) =>
            LET t == files[k]
                mid == Midpoint(fileInput[k])
                lo == FirstIncluded(t)
                hi == LastIncluded(t)
            IN /\ lo <= mid /\ mid <= hi
               /\ t.lines = SubSeq(t.document, lo + 1, hi + 1)
               /\ (lo > 0 /\ hi < LineCount(t.document) - 1) =>
                     (hi - mid) - (mid - lo) \in {0, 1}

C24_Witness ==
    /\ Len(files) = 1
    /\ fileInput[1].expand
    /\ fileInput[1].range = <<2, 2>>
    /\ files[1].document = NumberedDoc(5)
    /\ files[1].lines = SubSeq(NumberedDoc(5), 2, 4)

(***************************************************************************)
(* Claims about the tree builder and the parser.                           *)
(***************************************************************************)
Built == build = "done" /\ ~cancelled

\* C4: for every budget, listing order and focus path, every node in the
\* builder's tree has its parent directory in the tree too, up to the root: a
\* node is only ever attached to a directory that is already part of the tree.
C4_NoOrphans ==
    \A n \in Attached :
        /\ nodes[n].parent # NoParent
        /\ n \in Range(children[nodes[n].parent])
        /\ nodes[n].parent = RootNode \/ nodes[n].parent \in Attached

C4_Witness ==
    /\ build = "done"
    /\ props.focusOn = Root
    /\ sizing < UnlimitedBudget
    /\ \E n \in Attached : nodes[n].indent = 2 + props.indent

\* C5: with a focus subpath and the same directory contents, listing order,
\* ignore predicate and token counter, the nodes included at budget B are
\* among the nodes included at any larger budget B'.
C5_LargerBudgetKeepsNodes ==
    (Built /\ previous # NoPrevious /\ props.focusOn # props.root) =>
        (previous.budget < sizing /\ previous.uris \subseteq AttachedUris)

C5_Witness ==
    /\ Built
    /\ previous # NoPrevious
    /\ props.focusOn = Baz
    /\ previous.budget > 0
    /\ sizing < UnlimitedBudget
    /\ Cardinality(previous.uris) > 2
    /\ previous.uris # AttachedUris
    /\ previous.uris \subseteq AttachedUris

\* C6: for every tree the builder can render, parseText of the rendered text
\* gives a structure with the same node names and nesting as the rendered
\* nodes; it gives the same structure when each tab is replaced by a fixed run
\* of spaces and when LF line endings are replaced by CRLF.
C6_ParseRecoversRenderedTree ==
    build = "done" =>
        LET text == RenderedTree
            rendered == RenderedStructure
        IN /\ ParseText(text) = rendered
           /\ ParseText(ReplaceAll(text, "\n", <<"\r", "\n">>)) = rendered
           /\ \A w \in 1..MaxSpacesPerTab :
                 LET spaced == ReplaceAll(text, "\t", Repeat(" ", w))
                 IN /\ ParseText(spaced) = rendered
                    /\ ParseText(ReplaceAll(spaced, "\n", <<"\r", "\n">>)) = rendered

C6_Witness ==
    /\ build = "done"
    /\ sizing = UnlimitedBudget
    /\ LET rendered == RenderedStructure
       IN /\ Len(rendered) >= 8
          /\ \E k \in DOMAIN rendered :
                /\ rendered[k].parent # 0
                /\ rendered[rendered[k].parent].parent # 0
          /\ ParseText(ReplaceAll(ReplaceAll(RenderedTree, "\t", <<" ", " ">>),
                                  "\n", <<"\r", "\n">>)) = rendered

\* the focus path is the root or below it, path segment by path segment
FocusAtOrBelowRoot ==
    LET r == Split(props.root, "/")
        f == Split(props.focusOn, "/")
    IN Len(r) <= Len(f) /\ SubSeq(f, 1, Len(r)) = r

\* the directories a Node is in, up to the root Node
RECURSIVE Ancestors(_)
Ancestors(n) ==
    IF nodes[n].parent = NoParent THEN {}
    ELSE {nodes[n].parent} \cup Ancestors(nodes[n].parent)

\* C25: in the rendered tree the entries of each directory are sorted by path
\* whatever order the lister returned them in, every directory is followed at
\* once by its own entries (pre-order), each line is indented by its node's
\* depth below the root (the root's entries at props.indent), directory names
\* end in a path separator, and the root itself is not emitted.
C25_RenderedSortedPreOrder ==
    build = "done" =>
        LET emitted == Emitted
        IN /\ RootNode \notin Range(emitted)
           /\ Range(emitted) = Attached
           /\ Len(emitted) = Cardinality(Attached)
           /\ \A i \in DOMAIN emitted : \A j \in DOMAIN emitted :
                 (i < j /\ nodes[emitted[i]].parent = nodes[emitted[j]].parent) =>
                     ~LocaleLess(nodes[emitted[j]].uri, nodes[emitted[i]].uri)
           /\ \A k \in DOMAIN emitted :
                 LET p == nodes[emitted[k]].parent
                 IN p # RootNode =>
                       \E j \in 1..(k - 1) :
                           /\ emitted[j] = p
                           /\ \A i \in (j + 1)..k : p \in Ancestors(emitted[i])
           /\ TextOf(emitted) =
                 Concat([k \in DOMAIN emitted |->
                     Repeat("\t", Cardinality(Ancestors(emitted[k])) - 1 + props.indent)
                     \o Basename(nodes[emitted[k]].uri)
                     \o (IF nodes[emitted[k]].isDir THEN <<"/">> ELSE <<>>)
                     \o <<"\n">>])

C25_Witness ==
    /\ build = "done"
    /\ props.focusOn = Root
    /\ props.indent = 1
    /\ Root \in DOMAIN listing
    /\ listing[Root][1].name = <<"t", "e", "s", "t">>
    /\ Test \in DOMAIN listing
    /\ listing[Test][1].name = <<"B">>
    /\ LET emitted == Emitted
       IN /\ Len(emitted) >= 8
          /\ nodes[emitted[1]].uri = Src
          /\ \E k \in DOMAIN emitted : Cardinality(Ancestors(emitted[k])) = 3

\* the Nodes made from a listing (the root and the focus chain come before them)
ListedNodes == (Len(FocusSegments) + 2)..Len(nodes)

\* where child c stands in the children of its parent
PlaceOf(c) == CHOOSE i \in DOMAIN children[nodes[c].parent] : children[nodes[c].parent][i] = c

\* C28: children are added in listing order, and as soon as charging the next
\* child would make the remaining budget negative the whole build stops: no
\* node is added after that point, neither a later and cheaper sibling nor any
\* child of a directory still waiting in the queue.
C28_BuildStopsAtFirstMisfit ==
    /\ \A c \in ListedNodes : \A m \in ListedNodes :
          (c < m /\ c \notin Attached) => m \notin Attached
    /\ ((\E c \in ListedNodes : c \notin Attached) /\ ~cancelled) =>
          (build = "done" /\ remaining < 0)
    /\ \A c \in ListedNodes \cap Attached :
          LET d == nodes[c].parent
              entries == listing[nodes[d].uri]
              at == CHOOSE i \in DOMAIN entries :
                        JoinPath(nodes[d].uri, entries[i].name) = nodes[c].uri
          IN \A i \in 1..(at - 1) :
                (entries[i].type \in {"Directory", "File"}
                    /\ JoinPath(nodes[d].uri, entries[i].name) \notin props.ignore) =>
                  \E c2 \in Range(children[d]) :
                      /\ nodes[c2].uri = JoinPath(nodes[d].uri, entries[i].name)
                      /\ PlaceOf(c2) < PlaceOf(c)

C28_Witness ==
    /\ build = "done"
    /\ ~cancelled
    /\ qi < Len(queue)
    /\ \E c \in ListedNodes : \E m \in ListedNodes :
          /\ c < m
          /\ c \notin Attached /\ m \notin Attached
          /\ nodes[c].parent = nodes[m].parent
          /\ CountTokens(NodeText(nodes[m])) < CountTokens(NodeText(nodes[c]))
          /\ CountTokens(NodeText(nodes[m])) <= remaining + CountTokens(NodeText(nodes[c]))

\* C30: priorities are assigned in creation order, from the maximum at the
\* root and strictly decreasing: every node's priority is lower than its
\* parent's and lower than that of every node created before it, so no two
\* nodes share a priority.
C30_PrioritiesStrictlyDecrease ==
    nodes # <<>> =>
        /\ nodes[RootNode].priority = ROOT_PRIORITY
        /\ \A i \in DOMAIN nodes : \A j \in DOMAIN nodes :
              /\ i < j => nodes[j].priority < nodes[i].priority
              /\ i # j => nodes[i].priority # nodes[j].priority
        /\ \A n \in DOMAIN nodes :
              nodes[n].parent # NoParent => nodes[n].priority < nodes[nodes[n].parent].priority
        /\ priority < nodes[Len(nodes)].priority

C30_Witness ==
    /\ build = "done"
    /\ props.focusOn = Baz
    /\ Len(nodes) >= 8
    /\ nodes[Len(nodes)].priority = ROOT_PRIORITY - (Len(nodes) - 1)
    /\ \E n \in DOMAIN nodes : n \notin Attached /\ n # RootNode

\* the Node of the focus directory, and how far below it a Node is
FocusNode == Len(FocusSegments) + 1
InFocusSubtree(n) == FocusNode \in Ancestors(n)
DepthBelowFocus(n) == Cardinality(Ancestors(n)) - Cardinality(Ancestors(FocusNode))

\* C29, as stated: with a focus subpath, every node of the focus subtree that
\* the build includes is added before any node outside the focus subtree.
C29_FocusSubtreeFirst ==
    (nodes # <<>> /\ FocusAtOrBelowRoot /\ props.focusOn # props.root) =>
        \A x \in ListedNodes \cap Attached : \A y \in ListedNodes \cap Attached :
            (InFocusSubtree(x) /\ ~InFocusSubtree(y)) => x < y

\* C29, amended: with a focus subpath, the entries of the focus directory and
\* the entries of its child directories that the build includes are added
\* before any node outside the focus subtree; what lies deeper in the focus
\* subtree is added only after the siblings of the focus directory.
C29_FocusChildrenFirst ==
    (nodes # <<>> /\ FocusAtOrBelowRoot /\ props.focusOn # props.root) =>
        \A x \in ListedNodes \cap Attached : \A y \in ListedNodes \cap Attached :
            /\ (InFocusSubtree(x) /\ DepthBelowFocus(x) <= 2 /\ ~InFocusSubtree(y)) => x < y
            /\ (InFocusSubtree(x) /\ DepthBelowFocus(x) > 2
                    /\ nodes[y].parent = nodes[FocusNode].parent) => y < x

C29_Witness ==
    /\ build = "done"
    /\ props.focusOn = Src
    /\ \E x \in ListedNodes \cap Attached : \E y \in ListedNodes \cap Attached :
          \E z \in ListedNodes \cap Attached :
              /\ InFocusSubtree(x) /\ DepthBelowFocus(x) = 2
              /\ nodes[y].uri = Test
              /\ InFocusSubtree(z) /\ DepthBelowFocus(z) = 3
              /\ x < y /\ y < z

\* the directories on the path from the root (not itself) down to the focus path
FocusChainUris ==
    {SubSeq(props.focusOn, 1, n) :
        n \in {m \in (Len(props.root) + 1)..Len(props.focusOn) :
                  m = Len(props.focusOn) \/ props.focusOn[m + 1] = "/"}}

\* the summed cost of the rendered lines of a set of Nodes
RECURSIVE SumCost(_)
SumCost(S) ==
    IF S = {} THEN 0
    ELSE LET n == CHOOSE x \in S : TRUE
         IN CountTokens(NodeText(nodes[n])) + SumCost(S \ {n})

\* C15: for every focus path that is neither the root nor below it (path
\* segment by path segment) the build fails before any directory is listed,
\* any node is created and anything is charged to the budget.
C15_OutsideFocusFailsFast ==
    ~FocusAtOrBelowRoot =>
        /\ build \in {"created", "rejected"}
        /\ nodes = <<>>
        /\ listing = <<>>
        /\ remaining = 0

\* C16, as stated: once cancellation has been requested the builder adds no
\* further node to the tree and returns the tree built so far.
C16_NoNodeAfterCancellation ==
    cancelled => (build = "done" /\ Cardinality(Attached) = atCancel)

\* C16, amended: once cancellation has been requested the builder adds no
\* listed child and lists no further directory after the one in flight, and
\* returns the tree built so far instead of failing; a cancellation that comes
\* while the focus chain is built leaves the chain to be completed, and
\* nothing but the chain is in the tree then.
C16_NoChildAfterCancellation ==
    /\ [](cancelled =>
            /\ build = "done"
            /\ atCancel >= 0
            /\ IF listing = <<>>
                 THEN /\ Attached = 2..(Len(FocusSegments) + 1)
                      /\ atCancel <= Len(FocusSegments)
                 ELSE Cardinality(Attached) = atCancel)
    /\ [][cancelled => UNCHANGED <<nodes, children, listing, build>>]_vars

C16_Witness ==
    /\ cancelled
    /\ build = "done"
    /\ props.focusOn = Baz
    /\ Cardinality(DOMAIN listing) = 2
    /\ atCancel = Cardinality(Attached)
    /\ atCancel > 2
    /\ Len(nodes) > atCancel + 1

\* C17: with a focus subpath, every directory on the path from the root down
\* to the focus path is in the built tree for every budget, a budget of zero
\* included.
C17_FocusChainPresent ==
    (build \in {"loop", "done"} /\ FocusAtOrBelowRoot /\ props.focusOn # props.root) =>
        /\ FocusChainUris # {}
        /\ FocusChainUris \subseteq AttachedUris

C17_Witness ==
    /\ build = "done"
    /\ sizing = 0
    /\ props.focusOn = Corge
    /\ FocusChainUris = {Src, Baz, Corge}
    /\ AttachedUris = {Src, Baz, Corge}

\* C18: whenever a node is committed to the tree, a focus-chain segment or a
\* listed child, the budget that remains after charging it is not negative;
\* hence the summed cost of the included nodes never exceeds the token budget.
C18_IncludedNodesWithinBudget ==
    build \in {"loop", "done"} => SumCost(Attached) <= sizing

\* C19: no entry that the ignore predicate flags is in the built tree, and
\* nothing below an ignored directory is, for every budget and focus path.
C19_NoIgnoredEntry ==
    \A u \in AttachedUris : \A g \in props.ignore :
        u # g /\ ~StartsWith(u, g \o <<"/">>)

\* C20: uris() yields the location of every node in the built tree,
\* directories as well as files, each exactly once; files() yields only the
\* locations of the file nodes.
C20_UrisYieldsEveryNode ==
    build = "done" =>
        /\ Len(MetadataUris) = Cardinality(Attached)
        /\ Range(MetadataUris) = AttachedUris
        /\ Range(MetadataFiles) = {nodes[n].uri : n \in {m \in Attached : ~nodes[m].isDir}}

(***************************************************************************)
(* Claims about the tool-calling loop.                                     *)
(***************************************************************************)
Exited == pc \in {"done", "failed"}
Occurrences(id, calls) == Cardinality({k \in DOMAIN calls : calls[k].callId = id})

\* C2: across the whole multi-round run of one request the tool invoker is
\* called at most once for each tool-call id: a call id that has a cached
\* result is rendered again in later rounds with the cached result, and the
\* tool is not invoked for it again.
C2_InvokedAtMostOncePerCallId ==
    /\ [](\A id \in CallIds : invoked[id] <= 1)
    /\ [][\A id \in DOMAIN accumulatedToolResults : invoked'[id] = invoked[id]]_vars

C2_Witness ==
    /\ pc = "done"
    /\ Len(toolCallRounds) >= 2
    /\ Occurrences("a", toolCallRounds[1].toolCalls) = 1
    /\ Occurrences("a", toolCallRounds[2].toolCalls) = 1
    /\ invoked["a"] = 1
    /\ "a" \in DOMAIN accumulatedToolResults
    /\ accumulatedToolResults["a"] = ToolResultOf("a", 1)

\* C3: on every exit path of a top-level request (the loop done, or the model
\* request or a rendering failing) the output sequence has been closed exactly
\* once.
C3_ClosedExactlyOnce == Exited => closed = 1

\* C9: if the model's first response contains no tool call, the run issues
\* exactly one model request, invokes no tool, and completes with an empty
\* result cache.
C9_NoToolCallOneRequest ==
    (Len(responses) >= 1 /\ responses[1] = <<>>) =>
        /\ pc = "done"
        /\ requests = 1
        /\ \A id \in CallIds : invoked[id] = 0
        /\ accumulatedToolResults = <<>>

C9_Witness ==
    /\ pc = "done"
    /\ responses = << <<>> >>
    /\ Len(out) >= 1
    /\ requests = 1

\* C10: every tool result produced in a round appears on the output sequence
\* returned to the caller.
C10_ToolResultsOnStream ==
    \A id \in DOMAIN accumulatedToolResults : accumulatedToolResults[id] \in Range(out)

HasToolCalls(calls) == calls # <<>>
ToolCallsOfRounds(rounds) == [r \in DOMAIN rounds |-> rounds[r].toolCalls]

\* C11: during a run the result cache only grows (an entry stored under a call
\* id is never removed), and when the run completes the final result carries
\* that full cache, holding under its call id every tool result produced in
\* any round, together with the round records in round order.
C11_CacheGrowsAndIsReturned ==
    /\ [][\A id \in DOMAIN accumulatedToolResults :
             /\ id \in DOMAIN accumulatedToolResults'
             /\ accumulatedToolResults'[id] = accumulatedToolResults[id]]_vars
    /\ [](result.state = "fulfilled" =>
             /\ result.toolCallResults = accumulatedToolResults
             /\ \A id \in CallIds : \A n \in 1..invoked[id] :
                   /\ id \in DOMAIN result.toolCallResults
                   /\ result.toolCallResults[id] = ToolResultOf(id, n)
             /\ SelectSeq(ToolCallsOfRounds(result.toolCallRounds), HasToolCalls)
                   = SelectSeq(responses, HasToolCalls))

C11_Witness ==
    /\ result.state = "fulfilled"
    /\ DOMAIN result.toolCallResults = {"a", "b"}
    /\ Len(SelectSeq(ToolCallsOfRounds(result.toolCallRounds), HasToolCalls)) = 2
    /\ invoked["a"] = 1 /\ invoked["b"] = 1

\* C12: if the model request fails in some round, the failure is fatal to the
\* whole loop: nothing is rendered, requested or invoked afterwards, and the
\* promise of the final result is rejected with that failure.
C12_ModelFailureIsFatal ==
    /\ [][(pc = "stream" /\ pc' = "failed") =>
             (result'.state = "rejected" /\ result'.error = "model")]_vars
    /\ [](pc = "failed" => result.state = "rejected")
    /\ [][pc = "failed" => UNCHANGED loopVars]_vars

C12_Witness ==
    /\ pc = "failed"
    /\ result.state = "rejected"
    /\ result.error = "model"
    /\ requests = 2
    /\ invoked["a"] = 1
    /\ Len(out) >= 1

\* C13: when a buffered tool call names a tool with no registered
\* implementation, the rendering gives a placeholder message for that call
\* id, the tool invoker is not called for it, and the round and the run go on.
C13_MissingToolPlaceholder ==
    /\ [](\A c \in ToolCallParts : c.name \notin RegisteredTools => invoked[c.callId] = 0)
    /\ [][pc = "rerender" =>
             LET calls == PromptToolCalls(toolCallRounds)
             IN /\ (\A k \in DOMAIN calls : calls[k].name \notin RegisteredTools)
                      => pc' = "request"
                /\ pc' = "request" =>
                      /\ Len(messages') = Len(calls)
                      /\ \A k \in DOMAIN calls : calls[k].name \notin RegisteredTools =>
                            messages'[k] = ToolMessage(calls[k].callId, ToolNotFound)]_vars

C13_Witness ==
    /\ pc = "done"
    /\ result.state = "fulfilled"
    /\ requests = 2
    /\ invoked["m"] = 0
    /\ Len(messages) = 2
    /\ messages[1] = ToolMessage("m", ToolNotFound)
    /\ messages[2] = ToolMessage("a", ToolResultOf("a", 1))
    /\ "m" \notin DOMAIN accumulatedToolResults

TurnsOf(list) == [k \in DOMAIN list.children |-> list.children[k].piece.turn]

\* C22: for every history of length L and every n >= 0 (2 by default) History
\* gives the 'newer' priority to exactly the last min(n, L) messages and the
\* 'older' priority to all earlier ones, each message once, in the original order.
C22_LastNAreNewer ==
    (element.kind = "History" /\ piece # NoPiece) =>
        LET n == IF "n" \in DOMAIN element THEN element.n ELSE 2
            L == Len(element.history)
            m == IF n < L THEN n ELSE L
        IN /\ Len(piece.lists) = 2
           /\ piece.lists[1].priority = element.older
           /\ piece.lists[2].priority = element.newer
           /\ TurnsOf(piece.lists[2]) = SubSeq(element.history, L - m + 1, L)
           /\ TurnsOf(piece.lists[1]) = SubSeq(element.history, 1, L - m)

\* C23: when History is given a renderTurn function, every history turn it
\* outputs is rendered with that function, not with the default rendering.
C23_RenderTurnIsUsed ==
    (element.kind = "History" /\ "renderTurn" \in DOMAIN element /\ piece # NoPiece) =>
        \A i \in DOMAIN piece.lists : \A k \in DOMAIN piece.lists[i].children :
            piece.lists[i].children[k].piece.by = "renderTurn"

\* the lines of a text that parseText does not pass over
NamedLines(tree) == SelectSeq(Split(tree, "\n"), LAMBDA l : \E i \in DOMAIN l : ~IsSpace(l[i]))
EndsInSeparator(line) == Trim(line)[Len(Trim(line))] = "/"

\* the nearest line before line k that is indented less than it, 0 if none
EnclosingLine(lines, k) ==
    LET less == {j \in 1..(k - 1) : SearchNonSpace(lines[j]) < SearchNonSpace(lines[k])}
    IN IF less = {} THEN 0 ELSE CHOOSE j \in less : \A i \in less : i <= j

\* C31, as stated: parseText treats a line that ends in the path separator as
\* a directory, which receives the following deeper-indented lines as its
\* children, and every other line as a leaf: a line without a trailing
\* separator never gets children.
C31_OnlySeparatorLinesHaveChildren ==
    (element.kind = "parseText" /\ piece # NoPiece) =>
        LET lines == NamedLines(element.tree)
            parsed == piece.result
        IN /\ Len(parsed) = Len(lines)
           /\ \A k \in DOMAIN parsed :
                 /\ parsed[k].hasChildren <=> EndsInSeparator(lines[k])
                 /\ parsed[k].parent # 0 => EndsInSeparator(lines[parsed[k].parent])

\* C31, amended: parseText makes one node per non-blank line, the child of the
\* nearest line before it that is indented less, whether or not that line
\* ends in the path separator; a node has a children list exactly if its
\* line ends in the separator or a deeper-indented line follows it as its
\* child, and the separator is not part of the name.
C31_DeeperLinesAreChildren ==
    (element.kind = "parseText" /\ piece # NoPiece) =>
        LET lines == NamedLines(element.tree)
            parsed == piece.result
        IN /\ Len(parsed) = Len(lines)
           /\ \A k \in DOMAIN parsed :
                 /\ parsed[k].parent = EnclosingLine(lines, k)
                 /\ parsed[k].name = <<"a">>
                 /\ parsed[k].hasChildren <=>
                       (EndsInSeparator(lines[k]) \/ \E j \in DOMAIN parsed : parsed[j].parent = k)

C31_Witness ==
    /\ element.kind = "parseText"
    /\ piece # NoPiece
    /\ element.tree = <<"a", "/", "\n", "\t", "a", "\n", "\t", "\t", "a">>
    /\ piece.result = << [name |-> <<"a">>, hasChildren |-> TRUE, parent |-> 0],
                         [name |-> <<"a">>, hasChildren |-> TRUE, parent |-> 1],
                         [name |-> <<"a">>, hasChildren |-> FALSE, parent |-> 2] >>

(***************************************************************************)
(* The output sequence, the response sink and the requests of the loop     *)
(***************************************************************************)
\* the model texts among the calls made on the ChatResponseStream, in order
TextsOn(calls) ==
    LET texts == SelectSeq(calls, LAMBDA c : c.call = "markdown" /\ c # TraceLink)
    IN [k \in DOMAIN texts |-> texts[k].value]

\* C32: every text part of the model is put on the output sequence exactly
\* once, at the moment it is read, so the output sequence holds the texts in
\* the order of the model within a round and in the order of the rounds; and
\* with responseText set the response sink is given the same texts in the
\* same order.
C32_TextsOnceInOrder ==
    /\ [][ /\ (responseStr' # responseStr /\ responseStr' # <<>>) =>
                LET n == responseStr'[Len(responseStr')]
                IN /\ responseStr' = Append(responseStr, n)
                   /\ out' = Append(out, TextPart(n))
                   /\ options.responseText =>
                         TextsOn(sink') = Append(TextsOn(sink), n)
           /\ (responseStr' = responseStr \/ responseStr' = <<>>) =>
                /\ out' = out
                /\ TextsOn(sink') = TextsOn(sink) ]_vars
    /\ [](/\ \A k \in DOMAIN out : out[k] = TextPart(k)
          /\ options.responseText => TextsOn(sink) = [k \in DOMAIN out |-> out[k].text])

\* texts of two rounds are on the output sequence and, between the links to
\* the prompt trace, on the sink
C32_Witness ==
    /\ options.responseText /\ options.serveTrace
    /\ pc = "stream"
    /\ Len(toolCallRounds) = 1 /\ toolCallRounds[1].response = <<1>>
    /\ responseStr = <<2>>
    /\ out = <<TextPart(1), TextPart(2)>>
    /\ sink = <<TraceLink, Reference(Anchor(1)), Markdown(1), TraceLink, Markdown(2)>>

\* C33: while the stream of a round is read, a tool-call part is only put at
\* the end of the round's buffer: no tool is invoked, nothing is cached and no
\* tool message is rendered before the stream has ended. When it has ended
\* the buffer becomes the round record's tool calls, and the next rendering
\* takes the tool calls of the records in the order the model produced them.
C33_BufferedUntilStreamEnds ==
    [][ /\ pc = "stream" =>
             /\ invoked' = invoked
             /\ accumulatedToolResults' = accumulatedToolResults
             /\ messages' = messages
             /\ \/ toolCalls' = toolCalls
                \/ \E part \in ToolCallParts : toolCalls' = Append(toolCalls, part)
        /\ (pc = "stream" /\ pc' = "rerender") =>
             /\ toolCalls' = toolCalls
             /\ toolCallRounds'[Len(toolCallRounds')].toolCalls = toolCalls
             /\ responses' = Append(responses, toolCalls)
        /\ (pc = "rerender" /\ pc' = "request") =>
             LET calls == Concat(SelectSeq(responses, HasToolCalls))
             IN /\ Len(messages') = Len(calls)
                /\ \A k \in DOMAIN calls : messages'[k].toolCallId = calls[k].callId ]_vars

\* a round produced call b and then call a, and the rendering took them so
C33_Witness ==
    /\ pc = "request"
    /\ Len(toolCallRounds) = 1
    /\ toolCallRounds[1].toolCalls =
          <<[callId |-> "b", name |-> "t"], [callId |-> "a", name |-> "t"]>>
    /\ Len(messages) = 2
    /\ messages[1].toolCallId = "b" /\ messages[2].toolCallId = "a"
    /\ invoked["a"] = 1 /\ invoked["b"] = 1

\* the requestOptions of a request forced to one tool, and of a free one
Forced(name) == [toolMode |-> "Required", tools |-> {name}]
Free == [toolMode |-> "undefined", tools |-> OptionTools]

\* C34: the k-th request to the model is forced to exactly the k-th tool
\* reference of the chat request as long as there is one, and otherwise offers
\* the whole tool list with the tool mode unset; a reference is taken from the
\* front of the queue by the request it forces and by nothing else.
C34_ReferencesForceRequestsInOrder ==
    /\ [][ /\ Len(sent') = Len(sent) + 1 =>
                /\ SubSeq(sent', 1, Len(sent)) = sent
                /\ IF toolReferences # <<>>
                      THEN /\ sent'[Len(sent')] = Forced(Head(toolReferences))
                           /\ toolReferences' = Tail(toolReferences)
                      ELSE /\ sent'[Len(sent')] = Free
                           /\ toolReferences' = <<>>
           /\ Len(sent') # Len(sent) + 1 =>
                (sent' = sent /\ toolReferences' = toolReferences) ]_vars
    /\ [](\E refs \in ReferenceChoices :
             /\ Len(sent) = requests
             /\ \A k \in DOMAIN sent :
                   sent[k] = IF k <= Len(refs) THEN Forced(refs[k]) ELSE Free
             /\ toolReferences = SubSeq(refs, Len(sent) + 1, Len(refs)))

\* two references forced the first two requests in order, the third was free
C34_Witness ==
    /\ sent = <<Forced("s"), Forced("t"), Free>>
    /\ toolReferences = <<>>
    /\ requests = 3

\* C35: the rounds follow one another, each with exactly one request to the
\* model: a request is sent only when the stream of every earlier request has
\* been read to its end, every tool call of the earlier rounds has been
\* rendered (a registered tool invoked, its result in the cache under the call
\* id), and no round is being read while another request is sent.
C35_RoundsAreSequential ==
    /\ [][requests' # requests =>
             /\ requests' = requests + 1
             /\ pc = "request" /\ pc' = "stream"
             /\ Len(responses) = requests
             /\ LET calls == Concat(responses)
                IN /\ Len(messages) = Len(calls)
                   /\ \A k \in DOMAIN calls :
                         /\ messages[k].toolCallId = calls[k].callId
                         /\ calls[k].name \in RegisteredTools =>
                               /\ invoked[calls[k].callId] >= 1
                               /\ calls[k].callId \in DOMAIN accumulatedToolResults
                               /\ messages[k].content =
                                     accumulatedToolResults[calls[k].callId] ]_vars
    /\ [](/\ pc = "stream" => requests = Len(responses) + 1
          /\ pc \in {"render", "request", "rerender", "done"} => requests = Len(responses))

\* the second request is being answered: the two tool calls of the first
\* round were invoked and cached before it was sent
C35_Witness ==
    /\ pc = "stream"
    /\ requests = 2
    /\ Len(responses) = 1 /\ Len(responses[1]) = 2
    /\ DOMAIN accumulatedToolResults = {"a", "b"}
    /\ invoked["a"] = 1 /\ invoked["b"] = 1

\* C36: a round record is appended only for a round in which the model
\* produced at least one tool call: every record of the list, and of the final
\* result, lists at least one tool call, and the last round leaves no record.
C36_EveryRecordHasToolCalls ==
    /\ \A r \in DOMAIN toolCallRounds : toolCallRounds[r].toolCalls # <<>>
    /\ \A r \in DOMAIN result.toolCallRounds : result.toolCallRounds[r].toolCalls # <<>>
    /\ pc = "done" => Len(toolCallRounds) = Len(responses) - 1

\* C37: with references set, the reference markers of every rendering, the
\* initial one and each later one, have been sent on to the response sink.
C37_ReferencesOfEveryRenderForwarded ==
    options.references =>
        \A k \in DOMAIN renders : \A j \in DOMAIN renders[k] :
            renders[k][j].uri =>
                \E i \in DOMAIN sink :
                    sink[i].call = "reference" /\ sink[i].value = renders[k][j]

\* C40: if the model answers its k-th request without a tool call and nothing
\* has failed, the run is done after exactly k requests, the output sequence
\* is closed and the promise of the result is fulfilled.
C40_DoneAfterToolLessResponse ==
    \A k \in DOMAIN responses :
        responses[k] = <<>> =>
            /\ k = Len(responses)
            /\ pc = "done"
            /\ requests = k
            /\ result.state = "fulfilled"
            /\ closed = 1

(***************************************************************************)
(* The window as an interval of its document                               *)
(***************************************************************************)
\* the lines of a tracker are none, or the document's lines lo..hi, an
\* interval within the expansion bounds that holds line mid
IsIntervalAround(t, lo, hi, mid) ==
    t.lines # <<>> =>
        /\ t.minLine <= lo /\ hi <= t.maxLine - 1
        /\ lo >= 0 /\ hi < LineCount(t.document)
        /\ Len(t.lines) = hi - lo + 1
        /\ \A i \in lo..hi : t.lines[i - lo + 1] = t.document[i + 1]
        /\ lo <= mid /\ mid <= hi

\* C38: in every state of a window, for every focus range, the
\* accumulated lines are the document's lines of one contiguous interval
\* inside the expansion bounds, in order and each once, and the interval
\* holds the midpoint line once it is not empty.
C38_LinesAreAnIntervalForEveryRange ==
    \A k \in 1..Len(files) :
        IsIntervalAround(files[k], FirstIncluded(files[k]), LastIncluded(files[k]),
                         Midpoint(fileInput[k]))

(***************************************************************************)
(* The queue of the tree build                                             *)
(***************************************************************************)
\* the Nodes of the root and of the focus chain
ChainNodes == 1..(Len(FocusSegments) + 1)

\* C39: for every directory tree, focus path at or below the root and budget
\* the build comes to an end, and no directory is listed twice: a directory
\* gets into the queue once, the Nodes queued for ascending are those of the
\* focus chain and the root, the others are listed children that are not on
\* the chain, and no Node has two children of the same uri.
C39_TerminatesListingOnce ==
    /\ <>(build \in {"done", "rejected"})
    /\ [](FocusAtOrBelowRoot =>
             /\ \A i, j \in DOMAIN queue :
                   i # j => nodes[queue[i].node].uri # nodes[queue[j].node].uri
             /\ \A i \in DOMAIN queue :
                   IF queue[i].ascend
                     THEN queue[i].node \in ChainNodes
                     ELSE /\ queue[i].node \in ListedNodes
                          /\ nodes[queue[i].node].uri \notin FocusChainUris \cup {props.root}
             /\ \A n \in DOMAIN children : \A i, j \in DOMAIN children[n] :
                   i # j => nodes[children[n][i]].uri # nodes[children[n][j]].uri)

\* a build focused two levels down has ended: it ascended to the root, whose
\* listing named the focus chain's first directory again, and that directory
\* is in the tree and in the queue once
C39_Witness ==
    /\ build = "done" /\ ~cancelled
    /\ props.focusOn = Baz
    /\ Len(queue) = 5
    /\ queue[4] = [node |-> 1, ascend |-> TRUE]
    /\ nodes[queue[5].node].uri = Test
    /\ qi = Len(queue) + 1
    /\ Cardinality({n \in DOMAIN nodes : nodes[n].uri = Src}) = 1

====
